---- MODULE Spec2Model ----
(***************************************************************************)
(* Model of the AutoPilot AI booking backend: the slot scheduler           *)
(* (backend/scheduler.py), the CRUD layer (backend/crud.py), the request   *)
(* handlers that read and write bookings (backend/main.py) and the         *)
(* notification log (backend/notifications.py).                            *)
(*                                                                         *)
(* A date is the text "YYYY-MM-DD"; it is modelled as the triple           *)
(* <<year, month, day>> of the numbers the text spells, so that a text     *)
(* that spells no calendar date (month 13, 30 February) is representable   *)
(* and datetime.strptime is a partial function of it.  A time is the text  *)
(* "HH:MM".  A table is the sequence of its rows; a row's id is its index  *)
(* (autoincrement primary key, rows are never deleted).                    *)
(***************************************************************************)
EXTENDS Integers, Sequences, FiniteSets, TLC

VARIABLES
    users,       \* table users
    vehicles,    \* table vehicles
    bookings,    \* table bookings
    centers,     \* table service_centers
    pc,          \* per in-flight schedule-appointment request: position in the handler
    local,       \* per in-flight request: the handler's local variables
    resp,        \* the last response sent by a handler
    call,        \* the last direct call of a scheduler function, with its result
    fallbacks,   \* number of schedule-appointment requests answered by the last return of find_preferred_slot
    sent_notifications   \* NotificationService.sent_notifications, the in-memory log

vars == <<users, vehicles, bookings, centers, pc, local, resp, call, fallbacks, sent_notifications>>

----------------------------------------------------------------------------
(* scheduler.py constants *)

AVAILABLE_SLOTS == <<"09:00", "10:00", "11:00", "12:00", "14:00", "15:00", "16:00", "17:00">>

SLOTS_PER_TIMEFRAME == 5

SlotLabels == {AVAILABLE_SLOTS[i] : i \in DOMAIN AVAILABLE_SLOTS}

\* position of a label in AVAILABLE_SLOTS (the canonical order)
SlotIndex(s) == CHOOSE i \in DOMAIN AVAILABLE_SLOTS : AVAILABLE_SLOTS[i] = s

----------------------------------------------------------------------------
(* datetime: strptime(text, "%Y-%m-%d"), + timedelta(days=n), strftime *)

MAXYEAR == 9999

IsLeap(y) == (y % 4 = 0 /\ y % 100 # 0) \/ y % 400 = 0

DaysInMonth(y, m) ==
    IF m = 2 THEN (IF IsLeap(y) THEN 29 ELSE 28)
    ELSE IF m \in {4, 6, 9, 11} THEN 30 ELSE 31

\* strptime succeeds exactly on the texts that spell a calendar date
strptime_ok(d) ==
    /\ d[1] \in 1..MAXYEAR
    /\ d[2] \in 1..12
    /\ d[3] \in 1..DaysInMonth(d[1], d[2])

NextDay(d) ==
    IF d[3] < DaysInMonth(d[1], d[2]) THEN <<d[1], d[2], d[3] + 1>>
    ELSE IF d[2] < 12 THEN <<d[1], d[2] + 1, 1>>
    ELSE <<d[1] + 1, 1, 1>>

RECURSIVE AddDays(_, _)
\* (strptime(d) + timedelta(days=n)).strftime("%Y-%m-%d"), for a parsable d
AddDays(d, n) == IF n = 0 THEN d ELSE AddDays(NextDay(d), n - 1)

\* datetime + timedelta raises OverflowError past year 9999
add_ok(d, n) == AddDays(d, n)[1] <= MAXYEAR

----------------------------------------------------------------------------
(* scheduler.py: availability and occupancy *)

\* a count that forgets the status filter
CountSlot_AnyStatus(b, date, time, c) ==
    Cardinality({i \in DOMAIN b :
        /\ b[i].date = date
        /\ b[i].time = time
        /\ b[i].service_center_id = c})

\* a count that forgets the center filter
CountSlot_AnyCenter(b, date, time, c) ==
    Cardinality({i \in DOMAIN b :
        /\ b[i].date = date
        /\ b[i].time = time
        /\ b[i].status # "Cancelled"})

\* db.query(Booking).filter(date ==, time ==, service_center_id ==, status != "Cancelled").count()
CountSlot(b, date, time, c) ==
    Cardinality({i \in DOMAIN b :
        /\ b[i].date = date
        /\ b[i].time = time
        /\ b[i].service_center_id = c
        /\ b[i].status # "Cancelled"})

\* off by one: a slot holding 5 still passes
check_slot_availability_Loose(b, date, time, c) ==
    CountSlot(b, date, time, c) <= SLOTS_PER_TIMEFRAME

\* off by one: a slot holding 4 no longer passes
check_slot_availability_Tight(b, date, time, c) ==
    CountSlot(b, date, time, c) < SLOTS_PER_TIMEFRAME - 1

check_slot_availability(b, date, time, c) ==
    CountSlot(b, date, time, c) < SLOTS_PER_TIMEFRAME

\* the dict {slot: count}; its iteration order is that of AVAILABLE_SLOTS
get_slot_occupancy(b, date, c) ==
    [s \in SlotLabels |-> CountSlot(b, date, s, c)]

RECURSIVE InsertByKey(_, _, _)
\* insert x into the sorted sequence srt behind every element whose key is <= x's
InsertByKey(x, srt, key) ==
    IF srt = <<>> THEN <<x>>
    ELSE IF key[x] < key[Head(srt)] THEN <<x>> \o srt
    ELSE <<Head(srt)>> \o InsertByKey(x, Tail(srt), key)

\* the sort left out: the slots stay in canonical order
SortedByKey_Unsorted(seq, key, acc) == seq

RECURSIVE SortedByKey(_, _, _)
\* sorted(seq, key=...): a stable ascending sort; acc is the sorted prefix
SortedByKey(seq, key, acc) ==
    IF seq = <<>> THEN acc
    ELSE SortedByKey(Tail(seq), key, InsertByKey(Head(seq), acc, key))

\* the loop keeps the last slot with room, not the first
FirstAvailable_Last(b, date, seq, c) ==
    LET hits == {i \in DOMAIN seq : check_slot_availability(b, date, seq[i], c)}
    IN  IF hits = {} THEN "none"
        ELSE seq[CHOOSE i \in hits : \A j \in hits : i >= j]

\* for slot in seq: if check_slot_availability(...): return slot    ("none": the loop falls through)
FirstAvailable(b, date, seq, c) ==
    LET hits == {i \in DOMAIN seq : check_slot_availability(b, date, seq[i], c)}
    IN  IF hits = {} THEN "none"
        ELSE seq[CHOOSE i \in hits : \A j \in hits : i <= j]

\* range(2, 8): one day too many
HorizonOffsets_Long == 2..7

\* the days of step 4, range(2, 7)
HorizonOffsets == 2..6

\* The result of find_preferred_slot: the returned (date, time) and the
\* return statement that produced it (tier 1..5), or the exception raised.
Returned(date, time, tier) == [raised |-> FALSE, date |-> date, time |-> time, tier |-> tier]

Raised == [raised |-> TRUE]

\* the fallback returning the preferred day
Fallback_SameDay(preferred_date, next_date) == Returned(preferred_date, AVAILABLE_SLOTS[1], 5)

\* the last return: "return next_date, AVAILABLE_SLOTS[0]"
Fallback(preferred_date, next_date) == Returned(next_date, AVAILABLE_SLOTS[1], 5)

find_preferred_slot(b, preferred_date, preferred_time, c) ==
    IF preferred_time \in SlotLabels /\ check_slot_availability(b, preferred_date, preferred_time, c)
    THEN Returned(preferred_date, preferred_time, 1)
    ELSE
    LET occupancy == get_slot_occupancy(b, preferred_date, c)
        available_slots_today == SortedByKey(AVAILABLE_SLOTS, occupancy, <<>>)
        today == FirstAvailable(b, preferred_date, available_slots_today, c)
    IN  IF today # "none" THEN Returned(preferred_date, today, 2)
        ELSE IF ~strptime_ok(preferred_date) \/ ~add_ok(preferred_date, 1) THEN Raised
        ELSE
        LET next_date == AddDays(preferred_date, 1)
            tomorrow == FirstAvailable(b, next_date, AVAILABLE_SLOTS, c)
            \* the offsets of step 4 reached before a return or an OverflowError
            stops == {i \in HorizonOffsets :
                        \/ ~add_ok(preferred_date, i)
                        \/ FirstAvailable(b, AddDays(preferred_date, i), AVAILABLE_SLOTS, c) # "none"}
            stop == CHOOSE i \in stops : \A j \in stops : i <= j
        IN  IF tomorrow # "none" THEN Returned(next_date, tomorrow, 3)
            ELSE IF stops = {} THEN Fallback(preferred_date, next_date)
            ELSE IF ~add_ok(preferred_date, stop) THEN Raised
            ELSE Returned(AddDays(preferred_date, stop),
                          FirstAvailable(b, AddDays(preferred_date, stop), AVAILABLE_SLOTS, c), 4)

\* the check_slot_availability calls of "for slot in seq: if check(...): return":
\* up to the first slot with room, all of seq when there is none
Tried(b, date, seq, c) ==
    LET hits == {i \in DOMAIN seq : check_slot_availability(b, date, seq[i], c)}
    IN  IF hits = {} THEN Len(seq)
        ELSE CHOOSE i \in hits : \A j \in hits : i <= j

RECURSIVE TriedFrom(_, _, _, _)
\* the calls of step 4 from offset i on, until a return or an OverflowError
TriedFrom(b, preferred_date, c, i) ==
    IF i \notin HorizonOffsets \/ ~add_ok(preferred_date, i) THEN 0
    ELSE Tried(b, AddDays(preferred_date, i), AVAILABLE_SLOTS, c)
         + (IF FirstAvailable(b, AddDays(preferred_date, i), AVAILABLE_SLOTS, c) # "none" THEN 0
            ELSE TriedFrom(b, preferred_date, c, i + 1))

\* the number of check_slot_availability calls one run of find_preferred_slot makes
ChecksMade(b, preferred_date, preferred_time, c) ==
    LET first == IF preferred_time \in SlotLabels THEN 1 ELSE 0
        available_slots_today ==
            SortedByKey(AVAILABLE_SLOTS, get_slot_occupancy(b, preferred_date, c), <<>>)
        today == first + Tried(b, preferred_date, available_slots_today, c)
        next_date == AddDays(preferred_date, 1)
    IN  IF preferred_time \in SlotLabels /\ check_slot_availability(b, preferred_date, preferred_time, c)
        THEN first
        ELSE IF \/ FirstAvailable(b, preferred_date, available_slots_today, c) # "none"
                \/ ~strptime_ok(preferred_date)
                \/ ~add_ok(preferred_date, 1)
        THEN today
        ELSE today + Tried(b, next_date, AVAILABLE_SLOTS, c)
             + (IF FirstAvailable(b, next_date, AVAILABLE_SLOTS, c) # "none" THEN 0
                ELSE TriedFrom(b, preferred_date, c, 2))

\* db.query(ServiceCenter).first(): the id of the first row, or 1 when there is none
find_best_service_center(cs) == IF cs # <<>> THEN Head(cs).id ELSE 1

----------------------------------------------------------------------------
(* The tables a behaviour starts from.  Every initial store is one the     *)
(* handlers can build: a customer's requests for free slots are each       *)
(* answered by the first return of find_preferred_slot, cancelled bookings *)
(* stay in the table, and a slot gets a sixth booking through the last     *)
(* return of find_preferred_slot or through POST /bookings.                *)

\* crud.initialize_service_centers: the three seeded rows
SeededCenters ==
    << [id |-> 1, city |-> "Mumbai"], [id |-> 2, city |-> "Pune"], [id |-> 3, city |-> "Bangalore"] >>

Row(date, time, c, status) ==
    [user_id |-> 1, vehicle_id |-> 1, service_center_id |-> c, date |-> date,
     time |-> time, service_type |-> "General Service", status |-> status]

\* n rows of one slot
Cell(date, time, c, status, n) == [i \in 1..n |-> Row(date, time, c, status)]

RECURSIVE DayRows(_, _, _, _, _)
\* the rows of one day, load[i] rows in slot i, from slot index i on
DayRows(date, c, status, load, i) ==
    IF i > Len(AVAILABLE_SLOTS) THEN <<>>
    ELSE Cell(date, AVAILABLE_SLOTS[i], c, status, load[i]) \o DayRows(date, c, status, load, i + 1)

\* every slot holds n, except slot a which holds la and slot b which holds lb
Vec(a, la, b, lb, n) ==
    [i \in DOMAIN AVAILABLE_SLOTS |-> IF i = a THEN la ELSE IF i = b THEN lb ELSE n]

Flat(n) == Vec(0, 0, 0, 0, n)

RECURSIVE FullDays(_, _, _, _)
\* days date .. date+k-1, every slot holding n bookings
FullDays(date, c, n, k) ==
    IF k = 0 THEN <<>>
    ELSE DayRows(date, c, "Confirmed", Flat(n), 1) \o FullDays(NextDay(date), c, n, k - 1)

\* k full days from date on, then one day loaded as vec says
Week(date, c, n, k, vec) ==
    FullDays(date, c, n, k) \o DayRows(AddDays(date, k), c, "Confirmed", vec, 1)

\* rows that must not count: cancelled ones in every slot of the day, and another center's
Noise(date, c) ==
    DayRows(date, c, "Cancelled", Flat(1), 1)
    \o DayRows(date, (c % 3) + 1, "Completed", Flat(1), 1)

\* a text that spells no calendar date
BadDate == <<2025, 2, 30>>

OneUser == << [name |-> "n1", phone |-> "p1", email |-> "e1"] >>

\* BookingCreate.vehicle_year is a JSON integer of any size; it is modelled as
\* the sequence of its decimal digits (not negative, no leading zero), the
\* bound of the column that stores it lying beyond 32-bit arithmetic
Year2023 == <<2, 0, 2, 3>>

Year2021 == <<2, 0, 2, 1>>

\* 2^63, one more than an INTEGER column holds
YearTooLarge == <<9, 2, 2, 3, 3, 7, 2, 0, 3, 6, 8, 5, 4, 7, 7, 5, 8, 0, 8>>

OneVehicle == << [user_id |-> 1, make |-> "Tata", model |-> "Nexon", year |-> Year2023] >>

\* the in-flight schedule-appointment requests (SpecRace)
Procs == {1, 2}

Idle == [p \in Procs |-> "idle"]

NoLocals == [p \in Procs |-> <<>>]

\* preferred_time as sent by a client: the eight labels and a text that is none of them
TimeInputs == SlotLabels \cup {"13:00"}

----------------------------------------------------------------------------
(* SpecFn: the scheduler functions called directly on a store.  The store  *)
(* and the (date, center) of the call are drawn in InitFn; the store may   *)
(* hold rows of any center, cancelled rows and slots above capacity.       *)

\* loads of the preferred day: two slots set apart from the rest
TodayVectors ==
    {Vec(a, la, b, lb, n) : a \in {1, 4}, b \in {2, 8}, la \in {0, 4, 5}, lb \in {0, 4}, n \in {2, 5, 6}}

\* loads of a later day: full but for two slots, the earlier one the fuller; empty; full
LaterVectors ==
    {Vec(a, 4, b, 0, SLOTS_PER_TIMEFRAME) : a \in {1, 4}, b \in {2, 8}}
        \cup {Flat(0), Flat(SLOTS_PER_TIMEFRAME)}

\* the loads of a slot at or above capacity
FullLoads == {SLOTS_PER_TIMEFRAME, SLOTS_PER_TIMEFRAME + 1}

\* the number of full days before the day loaded by a vector: up to the whole horizon
FullDayCounts == 1..7

\* the (date, center) of a call: days whose week crosses no month's end, a
\* leap day, a year's end; and a malformed date
FnCalls ==
    { << <<2025, 6, 10>>, 1 >>, << <<2024, 2, 27>>, 2 >>, << <<2025, 12, 29>>, 3 >>, << BadDate, 1 >> }

\* the stores of a call for date d at center c; the rows that must not count
\* lie on the first day that is not full
FnStores(d, c) ==
    LET today == {Week(d, c, SLOTS_PER_TIMEFRAME, 0, v) : v \in TodayVectors}
        later == IF strptime_ok(d)
                 THEN {Week(d, c, n, k, v) \o Noise(AddDays(d, k), c) :
                          n \in FullLoads, k \in FullDayCounts, v \in LaterVectors}
                 ELSE {}
    IN  today \cup {w \o Noise(d, c) : w \in today} \cup later

InitFn ==
    /\ users = OneUser
    /\ vehicles = OneVehicle
    /\ centers = SeededCenters
    /\ pc = Idle
    /\ local = NoLocals
    /\ resp = [op |-> "none", served |-> 0]
    /\ fallbacks = 0
    /\ sent_notifications = <<>>
    /\ \E dc \in FnCalls :
        /\ bookings \in FnStores(dc[1], dc[2])
        /\ call = [fn |-> "none", date |-> dc[1], center |-> dc[2]]

CallAssign(time) ==
    /\ call.fn = "none"
    /\ call' = [fn |-> "find_preferred_slot", date |-> call.date, time |-> time, center |-> call.center,
                result |-> find_preferred_slot(bookings, call.date, time, call.center)]
    /\ UNCHANGED <<users, vehicles, bookings, centers, pc, local, resp, fallbacks, sent_notifications>>

CallAvailable(time) ==
    /\ call.fn = "none"
    /\ call' = [fn |-> "check_slot_availability", date |-> call.date, time |-> time, center |-> call.center,
                result |-> check_slot_availability(bookings, call.date, time, call.center)]
    /\ UNCHANGED <<users, vehicles, bookings, centers, pc, local, resp, fallbacks, sent_notifications>>

NextFn ==
    \/ \E t \in TimeInputs : CallAssign(t)
    \/ \E t \in TimeInputs : CallAvailable(t)

SpecFn == InitFn /\ [][NextFn]_vars

----------------------------------------------------------------------------
(* scheduler.optimize_slots_for_day *)

RECURSIVE SumValues_Short(_, _)
\* a sum that leaves out the last slot
SumValues_Short(occupancy, i) ==
    IF i >= Len(AVAILABLE_SLOTS) THEN 0
    ELSE occupancy[AVAILABLE_SLOTS[i]] + SumValues_Short(occupancy, i + 1)

RECURSIVE SumValues(_, _)
\* sum(occupancy.values()), from the i-th key on
SumValues(occupancy, i) ==
    IF i > Len(AVAILABLE_SLOTS) THEN 0
    ELSE occupancy[AVAILABLE_SLOTS[i]] + SumValues(occupancy, i + 1)

\* a max that keeps the last of the largest values
MaxKey_Last(occupancy) ==
    AVAILABLE_SLOTS[CHOOSE i \in DOMAIN AVAILABLE_SLOTS :
        /\ \A j \in DOMAIN AVAILABLE_SLOTS : occupancy[AVAILABLE_SLOTS[j]] <= occupancy[AVAILABLE_SLOTS[i]]
        /\ \A j \in (i + 1)..Len(AVAILABLE_SLOTS) : occupancy[AVAILABLE_SLOTS[j]] < occupancy[AVAILABLE_SLOTS[i]]]

\* max(occupancy, key=occupancy.get): the first key, in the dict's order, of the largest value
MaxKey(occupancy) ==
    AVAILABLE_SLOTS[CHOOSE i \in DOMAIN AVAILABLE_SLOTS :
        /\ \A j \in DOMAIN AVAILABLE_SLOTS : occupancy[AVAILABLE_SLOTS[j]] <= occupancy[AVAILABLE_SLOTS[i]]
        /\ \A j \in 1..(i - 1) : occupancy[AVAILABLE_SLOTS[j]] < occupancy[AVAILABLE_SLOTS[i]]]

\* min(occupancy, key=occupancy.get): the first key, in the dict's order, of the smallest value
MinKey(occupancy) ==
    AVAILABLE_SLOTS[CHOOSE i \in DOMAIN AVAILABLE_SLOTS :
        /\ \A j \in DOMAIN AVAILABLE_SLOTS : occupancy[AVAILABLE_SLOTS[j]] >= occupancy[AVAILABLE_SLOTS[i]]
        /\ \A j \in 1..(i - 1) : occupancy[AVAILABLE_SLOTS[j]] > occupancy[AVAILABLE_SLOTS[i]]]

\* a percentage cut off at 100
Percentage_Capped(total_booked, total_capacity) ==
    IF total_booked >= total_capacity THEN 10000
    ELSE (total_booked * 10000) \div total_capacity

\* round(total_booked / total_capacity * 100, 2), as a whole number of
\* hundredths of a percent (halves go up; total_booked * 10000 is a multiple
\* of total_capacity = 40, so no half occurs)
Percentage(total_booked, total_capacity) ==
    IF total_capacity > 0
    THEN (2 * total_booked * 10000 + total_capacity) \div (2 * total_capacity)
    ELSE 0

\* the returned dict, from the occupancy read by get_slot_occupancy
Stats(date, occupancy, total_capacity, total_booked) ==
    [date |-> date,
     total_capacity |-> total_capacity,
     total_booked |-> total_booked,
     total_available |-> total_capacity - total_booked,
     occupancy_percentage |-> Percentage(total_booked, total_capacity),
     peak_slot |-> MaxKey(occupancy),
     off_peak_slot |-> MinKey(occupancy),
     occupancy_by_slot |-> occupancy]

optimize_slots_for_day(b, date, c) ==
    Stats(date, get_slot_occupancy(b, date, c), Len(AVAILABLE_SLOTS) * SLOTS_PER_TIMEFRAME,
          SumValues(get_slot_occupancy(b, date, c), 1))

----------------------------------------------------------------------------
(* scheduler.predict_wait_time and the CRUD layer *)

\* bands closed on the wrong side: 30 and 60 minutes fall into the next band
predict_wait_time_Strict(occupancy, selected_slot) ==
    LET booked_count == IF selected_slot \in DOMAIN occupancy THEN occupancy[selected_slot] ELSE 0
        estimated_minutes == booked_count * 30
    IN  IF estimated_minutes = 0 THEN "No wait - You'll be first!"
        ELSE IF estimated_minutes < 30 THEN "~" \o ToString(estimated_minutes) \o " min wait"
        ELSE IF estimated_minutes < 60
             THEN "~" \o ToString(estimated_minutes) \o " min wait (about 1 hour)"
        ELSE "~" \o ToString(estimated_minutes \div 60) \o "h "
                 \o ToString(estimated_minutes % 60) \o "m wait"

predict_wait_time(occupancy, selected_slot) ==
    LET booked_count == IF selected_slot \in DOMAIN occupancy THEN occupancy[selected_slot] ELSE 0
        estimated_minutes == booked_count * 30
    IN  IF estimated_minutes = 0 THEN "No wait - You'll be first!"
        ELSE IF estimated_minutes <= 30 THEN "~" \o ToString(estimated_minutes) \o " min wait"
        ELSE IF estimated_minutes <= 60
             THEN "~" \o ToString(estimated_minutes) \o " min wait (about 1 hour)"
        ELSE "~" \o ToString(estimated_minutes \div 60) \o "h "
                 \o ToString(estimated_minutes % 60) \o "m wait"

\* db.query(User).filter(User.phone == phone).first(): the row's id, 0 for None
UserByPhone(us, phone) ==
    LET found == {i \in DOMAIN us : us[i].phone = phone}
    IN  IF found = {} THEN 0 ELSE CHOOSE i \in found : \A j \in found : i <= j

\* db.add(User(...)); db.commit(): the table afterwards and the new id, or
\* the IntegrityError of the commit (users.phone and users.email are unique)
AddUser(us, name, phone, email) ==
    IF \E i \in DOMAIN us : us[i].phone = phone \/ us[i].email = email
    THEN [raised |-> TRUE, table |-> us, id |-> 0]
    ELSE [raised |-> FALSE, table |-> Append(us, [name |-> name, phone |-> phone, email |-> email]),
          id |-> Len(us) + 1]

create_or_get_user(us, name, phone, email) ==
    IF UserByPhone(us, phone) # 0
    THEN [raised |-> FALSE, table |-> us, id |-> UserByPhone(us, phone)]
    ELSE AddUser(us, name, phone, email)

\* db.query(Vehicle).filter(user_id ==, make ==, model ==).first(): the row's id, 0 for None
VehicleByKey(vs, user_id, make, model) ==
    LET found == {i \in DOMAIN vs : vs[i].user_id = user_id /\ vs[i].make = make /\ vs[i].model = model}
    IN  IF found = {} THEN 0 ELSE CHOOSE i \in found : \A j \in found : i <= j

\* vehicles.year = Column(Integer): the largest value the column binds,
\* 2^63 - 1 (sqlite3: "Python int too large to convert to SQLite INTEGER";
\* PostgreSQL's INTEGER refuses it too)
INTEGER_MAX == <<9, 2, 2, 3, 3, 7, 2, 0, 3, 6, 8, 5, 4, 7, 7, 5, 8, 0, 7>>

RECURSIVE DigitsLeq(_, _)
\* a <= b for two numerals of the same length
DigitsLeq(a, b) ==
    IF a = <<>> THEN TRUE
    ELSE IF Head(a) # Head(b) THEN Head(a) < Head(b)
    ELSE DigitsLeq(Tail(a), Tail(b))

\* the numeral is a value the Integer column can hold
FitsInteger(n) ==
    \/ Len(n) < Len(INTEGER_MAX)
    \/ Len(n) = Len(INTEGER_MAX) /\ DigitsLeq(n, INTEGER_MAX)

\* db.add(Vehicle(...)); db.commit(): the table afterwards and the new id, or
\* the error of the commit when the year does not fit its column
AddVehicle(vs, user_id, make, model, year) ==
    IF FitsInteger(year)
    THEN [raised |-> FALSE,
          table |-> Append(vs, [user_id |-> user_id, make |-> make, model |-> model, year |-> year]),
          id |-> Len(vs) + 1]
    ELSE [raised |-> TRUE, table |-> vs, id |-> 0]

\* an upsert that never looks the vehicle up
create_or_get_vehicle_Fresh(vs, user_id, make, model, year) ==
    AddVehicle(vs, user_id, make, model, year)

create_or_get_vehicle(vs, user_id, make, model, year) ==
    IF VehicleByKey(vs, user_id, make, model) # 0
    THEN [raised |-> FALSE, table |-> vs, id |-> VehicleByKey(vs, user_id, make, model)]
    ELSE AddVehicle(vs, user_id, make, model, year)

\* a misspelt status: the row still counts as booked
cancel_booking_Misspelt(b, booking_id) ==
    IF booking_id \in DOMAIN b THEN [b EXCEPT ![booking_id].status = "Canceled"] ELSE b

\* a cancel that deletes the row
cancel_booking_Deleting(b, booking_id) ==
    IF booking_id \in DOMAIN b
    THEN SubSeq(b, 1, booking_id - 1) \o SubSeq(b, booking_id + 1, Len(b))
    ELSE b

\* a cancel that cancels every booking of the booking's slot
cancel_booking_Slot(b, booking_id) ==
    IF booking_id \in DOMAIN b
    THEN [i \in DOMAIN b |->
            IF b[i].date = b[booking_id].date /\ b[i].time = b[booking_id].time
               /\ b[i].service_center_id = b[booking_id].service_center_id
            THEN [b[i] EXCEPT !.status = "Cancelled"]
            ELSE b[i]]
    ELSE b

\* the bookings table after crud.cancel_booking
cancel_booking(b, booking_id) ==
    IF booking_id \in DOMAIN b THEN [b EXCEPT ![booking_id].status = "Cancelled"] ELSE b

\* a booking inserted with the column's default status
NewBooking_Pending(user_id, vehicle_id, date, time, service_type, c) ==
    [user_id |-> user_id, vehicle_id |-> vehicle_id, service_center_id |-> c, date |-> date,
     time |-> time, service_type |-> service_type, status |-> "Pending"]

\* models.Booking(..., status="Confirmed", ...); db.add; db.commit
NewBooking(user_id, vehicle_id, date, time, service_type, c) ==
    [user_id |-> user_id, vehicle_id |-> vehicle_id, service_center_id |-> c, date |-> date,
     time |-> time, service_type |-> service_type, status |-> "Confirmed"]

----------------------------------------------------------------------------
(* Spec: the service answering schedule-appointment and cancel requests    *)
(* one at a time; each handler runs to its response before the next        *)
(* request starts.                                                         *)

\* requests answered in one behaviour
MaxRequests == 2

\* the day the requests of a behaviour prefer
Today == <<2025, 12, 29>>

\* request bodies: a known customer and vehicle, and a new customer
Profiles ==
    { [user_name |-> "n1", phone |-> "p1", email |-> "e1",
       vehicle_make |-> "Tata", vehicle_model |-> "Nexon", vehicle_year |-> Year2023],
      [user_name |-> "n2", phone |-> "p2", email |-> "e2",
       vehicle_make |-> "Maruti", vehicle_model |-> "Swift", vehicle_year |-> Year2021] }

Requests ==
    { [profile |-> p, preferred_date |-> d, preferred_time |-> t, service_type |-> "General Service"] :
        p \in Profiles, d \in {Today, BadDate}, t \in {"09:00", "13:00"} }

\* the bookings tables a behaviour starts from: empty; one day partly
\* booked, with cancelled rows; a full malformed day; six full days and a
\* last one with room; the whole week full
InitialBookings ==
    { <<>>,
      Week(Today, 1, SLOTS_PER_TIMEFRAME, 0, Vec(1, 4, 2, 3, 0)) \o DayRows(Today, 1, "Cancelled", Flat(1), 1),
      Week(Today, 1, SLOTS_PER_TIMEFRAME, 0, Vec(1, 5, 2, 4, SLOTS_PER_TIMEFRAME)),
      Week(BadDate, 1, SLOTS_PER_TIMEFRAME, 0, Vec(8, 4, 0, 0, SLOTS_PER_TIMEFRAME)),
      Week(Today, 1, SLOTS_PER_TIMEFRAME, 6, Vec(8, 4, 0, 0, SLOTS_PER_TIMEFRAME)),
      Week(Today, 1, SLOTS_PER_TIMEFRAME, 7, Flat(0)) }

Init ==
    /\ users = OneUser
    /\ vehicles = OneVehicle
    /\ centers = SeededCenters
    /\ bookings \in InitialBookings
    /\ pc = Idle
    /\ local = NoLocals
    /\ resp = [op |-> "none", served |-> 0]
    /\ call = [fn |-> "none"]
    /\ fallbacks = 0
    /\ sent_notifications = <<>>

\* a handler that reads the occupancy after its own insert
ScheduleAppointment_WaitAfter(req) ==
    /\ resp.served < MaxRequests
    /\ \E service_center_id \in {find_best_service_center(centers)} :
       \E slot \in {find_preferred_slot(bookings, req.preferred_date, req.preferred_time, service_center_id)} :
       \E user \in {create_or_get_user(users, req.profile.user_name, req.profile.phone, req.profile.email)} :
        IF slot.raised \/ user.raised
        THEN \* except Exception: raise HTTPException(status_code=400); nothing was committed
             /\ resp' = [op |-> "schedule_appointment", served |-> resp.served + 1, status_code |-> 400]
             /\ UNCHANGED <<users, vehicles, bookings, fallbacks>>
        ELSE \E vehicle \in {create_or_get_vehicle(vehicles, user.id, req.profile.vehicle_make,
                                                    req.profile.vehicle_model, req.profile.vehicle_year)} :
             IF vehicle.raised
             THEN \* the same except clause, after create_or_get_user has committed
                  /\ users' = user.table
                  /\ resp' = [op |-> "schedule_appointment", served |-> resp.served + 1, status_code |-> 400]
                  /\ UNCHANGED <<vehicles, bookings, fallbacks>>
             ELSE LET inserted == Append(bookings,
                                         NewBooking(user.id, vehicle.id, slot.date, slot.time,
                                                    req.service_type, service_center_id))
                      occupancy == get_slot_occupancy(inserted, slot.date, service_center_id)
                      wait_time == predict_wait_time(occupancy, slot.time)
                  IN  /\ users' = user.table
                      /\ vehicles' = vehicle.table
                      /\ bookings' = Append(bookings,
                                        NewBooking(user.id, vehicle.id, slot.date, slot.time,
                                                   req.service_type, service_center_id))
                      /\ fallbacks' = IF slot.tier = 5 THEN fallbacks + 1 ELSE fallbacks
                      /\ resp' = [op |-> "schedule_appointment", served |-> resp.served + 1,
                                  status_code |-> 200,
                                  booking_id |-> Len(bookings) + 1,
                                  preferred_date |-> req.preferred_date,
                                  preferred_time |-> req.preferred_time,
                                  assigned_date |-> slot.date, assigned_time |-> slot.time,
                                  slot_changed |-> (slot.date # req.preferred_date
                                                      \/ slot.time # req.preferred_time),
                                  estimated_wait |-> wait_time, tier |-> slot.tier]
    /\ UNCHANGED <<centers, pc, local, call, sent_notifications>>

\* POST /schedule-appointment, the whole handler.  The response keeps the
\* fields the claims read; tier (the return statement of
\* find_preferred_slot that answered) is not sent to the client.
ScheduleAppointment(req) ==
    /\ resp.served < MaxRequests
    /\ \E service_center_id \in {find_best_service_center(centers)} :
       \E slot \in {find_preferred_slot(bookings, req.preferred_date, req.preferred_time, service_center_id)} :
       \E user \in {create_or_get_user(users, req.profile.user_name, req.profile.phone, req.profile.email)} :
        IF slot.raised \/ user.raised
        THEN \* except Exception: raise HTTPException(status_code=400); nothing was committed
             /\ resp' = [op |-> "schedule_appointment", served |-> resp.served + 1, status_code |-> 400]
             /\ UNCHANGED <<users, vehicles, bookings, fallbacks>>
        ELSE \E vehicle \in {create_or_get_vehicle(vehicles, user.id, req.profile.vehicle_make,
                                                    req.profile.vehicle_model, req.profile.vehicle_year)} :
             IF vehicle.raised
             THEN \* the same except clause, after create_or_get_user has committed
                  /\ users' = user.table
                  /\ resp' = [op |-> "schedule_appointment", served |-> resp.served + 1, status_code |-> 400]
                  /\ UNCHANGED <<vehicles, bookings, fallbacks>>
             ELSE LET occupancy == get_slot_occupancy(bookings, slot.date, service_center_id)
                      wait_time == predict_wait_time(occupancy, slot.time)
                  IN  /\ users' = user.table
                      /\ vehicles' = vehicle.table
                      /\ bookings' = Append(bookings,
                                        NewBooking(user.id, vehicle.id, slot.date, slot.time,
                                                   req.service_type, service_center_id))
                      /\ fallbacks' = IF slot.tier = 5 THEN fallbacks + 1 ELSE fallbacks
                      /\ resp' = [op |-> "schedule_appointment", served |-> resp.served + 1,
                                  status_code |-> 200,
                                  booking_id |-> Len(bookings) + 1,
                                  preferred_date |-> req.preferred_date,
                                  preferred_time |-> req.preferred_time,
                                  assigned_date |-> slot.date, assigned_time |-> slot.time,
                                  slot_changed |-> (slot.date # req.preferred_date
                                                      \/ slot.time # req.preferred_time),
                                  estimated_wait |-> wait_time, tier |-> slot.tier]
    /\ UNCHANGED <<centers, pc, local, call, sent_notifications>>

\* PUT /bookings/{booking_id}/cancel
CancelBooking(booking_id) ==
    /\ resp.served < MaxRequests
    /\ bookings' = cancel_booking(bookings, booking_id)
    /\ resp' = [op |-> "cancel_booking", served |-> resp.served + 1, booking_id |-> booking_id,
                status_code |-> IF booking_id \in DOMAIN bookings THEN 200 ELSE 404]
    /\ UNCHANGED <<users, vehicles, centers, pc, local, call, fallbacks, sent_notifications>>

\* booking ids a client sends: the first row, the last row, an unknown id
IdInputs == {1, Len(bookings), Len(bookings) + 1}

Next ==
    \/ \E req \in Requests : ScheduleAppointment(req)
    \/ \E id \in IdInputs : CancelBooking(id)

Spec == Init /\ [][Next]_vars

----------------------------------------------------------------------------
(* SpecBook: schedule-appointment requests only, one at a time, over the   *)
(* request bodies that make a step of the handler fail: a malformed date,  *)
(* a date in the last week of year 9999, a new phone with a known e-mail,  *)
(* a vehicle year beyond the Integer column.                               *)

\* the last day datetime.date holds
LastDay == <<MAXYEAR, 12, 31>>

\* request bodies: the known customer, a new one, a new phone with the known
\* customer's e-mail, a new customer whose vehicle_year is 2^63
BookProfiles ==
    Profiles \cup
    { [user_name |-> "n3", phone |-> "p3", email |-> "e1",
       vehicle_make |-> "Tata", vehicle_model |-> "Nexon", vehicle_year |-> Year2023],
      [user_name |-> "n4", phone |-> "p4", email |-> "e4",
       vehicle_make |-> "Tata", vehicle_model |-> "Nexon", vehicle_year |-> YearTooLarge] }

BookRequests ==
    { [profile |-> p, preferred_date |-> d, preferred_time |-> t, service_type |-> "General Service"] :
        p \in BookProfiles, d \in {Today, BadDate, LastDay}, t \in {"09:00", "13:00"} }

\* the bookings tables a behaviour starts from: empty; one day partly
\* booked; a full malformed day; a full last day; the whole week full
BookBookings ==
    { <<>>,
      Week(Today, 1, SLOTS_PER_TIMEFRAME, 0, Vec(1, 5, 2, 4, SLOTS_PER_TIMEFRAME)),
      Week(BadDate, 1, SLOTS_PER_TIMEFRAME, 0, Flat(SLOTS_PER_TIMEFRAME)),
      Week(LastDay, 1, SLOTS_PER_TIMEFRAME, 0, Flat(SLOTS_PER_TIMEFRAME)),
      Week(Today, 1, SLOTS_PER_TIMEFRAME, 7, Flat(0)) }

InitBook ==
    /\ users = OneUser
    /\ vehicles = OneVehicle
    /\ centers = SeededCenters
    /\ bookings \in BookBookings
    /\ pc = Idle
    /\ local = NoLocals
    /\ resp = [op |-> "none", served |-> 0]
    /\ call = [fn |-> "none"]
    /\ fallbacks = 0
    /\ sent_notifications = <<>>

NextBook == \E req \in BookRequests : ScheduleAppointment(req)

SpecBook == InitBook /\ [][NextBook]_vars

----------------------------------------------------------------------------
(* SpecApi: the handlers addressed to a booking id or needing a service    *)
(* center, and POST /bookings, one request at a time.  status_code is that *)
(* of the HTTPException the handler raises, 200 when it returns.  The      *)
(* table service_centers is seeded at startup; it is empty, with every     *)
(* other table, once fix_database.reset_database has run under a live      *)
(* server.                                                                 *)

\* log_notification: the logged dict, its type and booking_id
Notification(type, booking_id) == [type |-> type, booking_id |-> booking_id]

\* get_notification_history: the logged dicts of one booking
get_notification_history(log, booking_id) ==
    SelectSeq(log, LAMBDA n : n.booking_id = booking_id)

\* GET /bookings/{booking_id}
GetBooking(booking_id) ==
    /\ resp.served < MaxRequests
    /\ resp' = IF booking_id \in DOMAIN bookings
               THEN [op |-> "get_booking", served |-> resp.served + 1, booking_id |-> booking_id,
                     status_code |-> 200, date |-> bookings[booking_id].date,
                     time |-> bookings[booking_id].time, status |-> bookings[booking_id].status]
               ELSE [op |-> "get_booking", served |-> resp.served + 1, booking_id |-> booking_id,
                     status_code |-> 404]
    /\ UNCHANGED <<users, vehicles, bookings, centers, pc, local, call, fallbacks, sent_notifications>>

\* POST /notify/send-confirmation: the 404 is raised inside the try block
\* and "except Exception" turns it into a 400
SendConfirmation(booking_id) ==
    /\ resp.served < MaxRequests
    /\ IF booking_id \in DOMAIN bookings
       THEN /\ sent_notifications' = sent_notifications
                    \o << Notification("email", booking_id), Notification("sms", booking_id) >>
            /\ resp' = [op |-> "send_confirmation", served |-> resp.served + 1,
                        booking_id |-> booking_id, status_code |-> 200]
       ELSE /\ resp' = [op |-> "send_confirmation", served |-> resp.served + 1,
                        booking_id |-> booking_id, status_code |-> 400]
            /\ UNCHANGED sent_notifications
    /\ UNCHANGED <<users, vehicles, bookings, centers, pc, local, call, fallbacks>>

\* POST /notify/send-reminder
SendReminder(booking_id) ==
    /\ resp.served < MaxRequests
    /\ IF booking_id \in DOMAIN bookings
       THEN /\ sent_notifications' = Append(sent_notifications, Notification("reminder", booking_id))
            /\ resp' = [op |-> "send_reminder", served |-> resp.served + 1,
                        booking_id |-> booking_id, status_code |-> 200]
       ELSE /\ resp' = [op |-> "send_reminder", served |-> resp.served + 1,
                        booking_id |-> booking_id, status_code |-> 400]
            /\ UNCHANGED sent_notifications
    /\ UNCHANGED <<users, vehicles, bookings, centers, pc, local, call, fallbacks>>

\* a send-completion that refuses a Cancelled booking
SendCompletion_Guarded(booking_id) ==
    /\ resp.served < MaxRequests
    /\ IF booking_id \in DOMAIN bookings /\ bookings[booking_id].status # "Cancelled"
       THEN /\ sent_notifications' = Append(sent_notifications, Notification("completion", booking_id))
            /\ bookings' = [bookings EXCEPT ![booking_id].status = "Completed"]
            /\ resp' = [op |-> "send_completion", served |-> resp.served + 1,
                        booking_id |-> booking_id, status_code |-> 200]
       ELSE /\ resp' = [op |-> "send_completion", served |-> resp.served + 1,
                        booking_id |-> booking_id, status_code |-> 400]
            /\ UNCHANGED <<bookings, sent_notifications>>
    /\ UNCHANGED <<users, vehicles, centers, pc, local, call, fallbacks>>

\* POST /notify/send-completion: the notification, then status = "Completed"
SendCompletion(booking_id) ==
    /\ resp.served < MaxRequests
    /\ IF booking_id \in DOMAIN bookings
       THEN /\ sent_notifications' = Append(sent_notifications, Notification("completion", booking_id))
            /\ bookings' = [bookings EXCEPT ![booking_id].status = "Completed"]
            /\ resp' = [op |-> "send_completion", served |-> resp.served + 1,
                        booking_id |-> booking_id, status_code |-> 200]
       ELSE /\ resp' = [op |-> "send_completion", served |-> resp.served + 1,
                        booking_id |-> booking_id, status_code |-> 400]
            /\ UNCHANGED <<bookings, sent_notifications>>
    /\ UNCHANGED <<users, vehicles, centers, pc, local, call, fallbacks>>

\* GET /notifications/history/{booking_id}
NotificationHistory(booking_id) ==
    /\ resp.served < MaxRequests
    /\ resp' = IF booking_id \in DOMAIN bookings
               THEN [op |-> "notification_history", served |-> resp.served + 1,
                     booking_id |-> booking_id, status_code |-> 200,
                     notifications |-> get_notification_history(sent_notifications, booking_id)]
               ELSE [op |-> "notification_history", served |-> resp.served + 1,
                     booking_id |-> booking_id, status_code |-> 404]
    /\ UNCHANGED <<users, vehicles, bookings, centers, pc, local, call, fallbacks, sent_notifications>>

\* GET /available-slots/{date}: the 404 for no center is raised inside the
\* try block and "except Exception" turns it into a 400
AvailableSlots(date) ==
    /\ resp.served < MaxRequests
    /\ resp' = IF centers # <<>>
               THEN [op |-> "available_slots", served |-> resp.served + 1, status_code |-> 200,
                     date |-> date, stats |-> optimize_slots_for_day(bookings, date, Head(centers).id)]
               ELSE [op |-> "available_slots", served |-> resp.served + 1, status_code |-> 400]
    /\ UNCHANGED <<users, vehicles, bookings, centers, pc, local, call, fallbacks, sent_notifications>>

\* datetime.now() of the requests of a behaviour
Now == Today

\* min(analytics, key=occupancy_percentage): the first day of the smallest percentage
BestDay(analytics) ==
    analytics[CHOOSE i \in DOMAIN analytics :
        /\ \A j \in DOMAIN analytics : analytics[j].occupancy_percentage >= analytics[i].occupancy_percentage
        /\ \A j \in 1..(i - 1) : analytics[j].occupancy_percentage > analytics[i].occupancy_percentage]

\* GET /schedule-analytics: the statistics of the 7 days from now
ScheduleAnalytics ==
    /\ resp.served < MaxRequests
    /\ IF centers # <<>>
       THEN \E analytics \in {[i \in 1..7 |->
                                 optimize_slots_for_day(bookings, AddDays(Now, i - 1), Head(centers).id)]} :
                resp' = [op |-> "schedule_analytics", served |-> resp.served + 1, status_code |-> 200,
                         next_7_days |-> analytics,
                         best_day |-> BestDay(analytics).date,
                         best_slot |-> BestDay(analytics).off_peak_slot]
       ELSE resp' = [op |-> "schedule_analytics", served |-> resp.served + 1, status_code |-> 400]
    /\ UNCHANGED <<users, vehicles, bookings, centers, pc, local, call, fallbacks, sent_notifications>>

\* a POST /bookings that refuses a slot without room
CreateBooking_Checked(req) ==
    /\ resp.served < MaxRequests
    /\ \E user \in {create_or_get_user(users, req.profile.user_name, req.profile.phone, req.profile.email)} :
        IF user.raised \/ ~check_slot_availability(bookings, req.preferred_date, req.preferred_time, 1)
        THEN /\ resp' = [op |-> "create_booking", served |-> resp.served + 1, status_code |-> 400]
             /\ UNCHANGED <<users, vehicles, bookings>>
        ELSE \E vehicle \in {create_or_get_vehicle(vehicles, user.id, req.profile.vehicle_make,
                                                    req.profile.vehicle_model, req.profile.vehicle_year)} :
             IF vehicle.raised
             THEN /\ users' = user.table
                  /\ resp' = [op |-> "create_booking", served |-> resp.served + 1, status_code |-> 400]
                  /\ UNCHANGED <<vehicles, bookings>>
             ELSE /\ users' = user.table
                  /\ vehicles' = vehicle.table
                  /\ bookings' = Append(bookings,
                                    NewBooking(user.id, vehicle.id, req.preferred_date, req.preferred_time,
                                               req.service_type, 1))
                  /\ resp' = [op |-> "create_booking", served |-> resp.served + 1, status_code |-> 200,
                              booking_id |-> Len(bookings) + 1,
                              date |-> req.preferred_date, time |-> req.preferred_time]
    /\ UNCHANGED <<centers, pc, local, call, fallbacks, sent_notifications>>

\* POST /bookings: crud.create_booking, the two upserts and the insert each
\* with its own commit; the date and the time are stored as sent and the
\* center is 1.  "except Exception" answers 400.
CreateBooking(req) ==
    /\ resp.served < MaxRequests
    /\ \E user \in {create_or_get_user(users, req.profile.user_name, req.profile.phone, req.profile.email)} :
        IF user.raised
        THEN /\ resp' = [op |-> "create_booking", served |-> resp.served + 1, status_code |-> 400]
             /\ UNCHANGED <<users, vehicles, bookings>>
        ELSE \E vehicle \in {create_or_get_vehicle(vehicles, user.id, req.profile.vehicle_make,
                                                    req.profile.vehicle_model, req.profile.vehicle_year)} :
             IF vehicle.raised
             THEN /\ users' = user.table
                  /\ resp' = [op |-> "create_booking", served |-> resp.served + 1, status_code |-> 400]
                  /\ UNCHANGED <<vehicles, bookings>>
             ELSE /\ users' = user.table
                  /\ vehicles' = vehicle.table
                  /\ bookings' = Append(bookings,
                                    NewBooking(user.id, vehicle.id, req.preferred_date, req.preferred_time,
                                               req.service_type, 1))
                  /\ resp' = [op |-> "create_booking", served |-> resp.served + 1, status_code |-> 200,
                              booking_id |-> Len(bookings) + 1,
                              date |-> req.preferred_date, time |-> req.preferred_time]
    /\ UNCHANGED <<centers, pc, local, call, fallbacks, sent_notifications>>

\* the request bodies of schedule-appointment: both customers, the first slot of Today
ApiRequests == {r \in Requests : r.preferred_date = Today /\ r.preferred_time = "09:00"}

\* the request bodies of POST /bookings: those, and the known customer
\* asking for a date that is no calendar date at a time that is no slot
PostRequests ==
    ApiRequests \cup
    {r \in Requests : r.profile.phone = "p1" /\ r.preferred_date = BadDate /\ r.preferred_time = "13:00"}

\* the dates asked of available-slots: the day of the requests and the next
ApiDates == {Today, NextDay(Today)}

\* the bookings tables next to the seeded centers: one day partly booked,
\* with a cancelled row, the table's last or its first; the whole week full
ApiBookings ==
    { Week(Today, 1, SLOTS_PER_TIMEFRAME, 0, Vec(1, 4, 2, 3, 0))
          \o Cell(Today, "09:00", 1, "Cancelled", 1),
      Cell(Today, "09:00", 1, "Cancelled", 1)
          \o Week(Today, 1, SLOTS_PER_TIMEFRAME, 0, Vec(1, 4, 2, 3, 0)),
      Week(Today, 1, SLOTS_PER_TIMEFRAME, 7, Flat(0)) }

InitApi ==
    /\ \/ /\ centers = SeededCenters
          /\ users = OneUser
          /\ vehicles = OneVehicle
          /\ bookings \in ApiBookings
       \/ /\ centers = <<>>
          /\ users = <<>>
          /\ vehicles = <<>>
          /\ bookings = <<>>
    /\ pc = Idle
    /\ local = NoLocals
    /\ resp = [op |-> "none", served |-> 0]
    /\ call = [fn |-> "none"]
    /\ fallbacks = 0
    /\ sent_notifications = <<>>

NextApi ==
    \/ \E id \in IdInputs : GetBooking(id)
    \/ \E id \in IdInputs : CancelBooking(id)
    \/ \E id \in IdInputs : SendConfirmation(id)
    \/ \E id \in IdInputs : SendReminder(id)
    \/ \E id \in IdInputs : SendCompletion(id)
    \/ \E id \in IdInputs : NotificationHistory(id)
    \/ \E date \in ApiDates : AvailableSlots(date)
    \/ ScheduleAnalytics
    \/ \E req \in ApiRequests : ScheduleAppointment(req)
    \/ \E req \in PostRequests : CreateBooking(req)

SpecApi == InitApi /\ [][NextApi]_vars

----------------------------------------------------------------------------
(* SpecUpsert: the two handlers that take a booking request body, POST     *)
(* /schedule-appointment and POST /bookings, one request at a time, over   *)
(* bodies that meet the upserts in each of their cases.                    *)

\* request bodies: the known customer and vehicle; the known phone under
\* another name and e-mail, the known vehicle with another year; a new
\* customer; a new phone with the known customer's e-mail; the known
\* customer with a second vehicle; a new customer with the known make and model
UpsertProfiles ==
    { [user_name |-> "n1", phone |-> "p1", email |-> "e1",
       vehicle_make |-> "Tata", vehicle_model |-> "Nexon", vehicle_year |-> Year2023],
      [user_name |-> "n5", phone |-> "p1", email |-> "e5",
       vehicle_make |-> "Tata", vehicle_model |-> "Nexon", vehicle_year |-> Year2021],
      [user_name |-> "n2", phone |-> "p2", email |-> "e2",
       vehicle_make |-> "Maruti", vehicle_model |-> "Swift", vehicle_year |-> Year2021],
      [user_name |-> "n3", phone |-> "p3", email |-> "e1",
       vehicle_make |-> "Tata", vehicle_model |-> "Nexon", vehicle_year |-> Year2023],
      [user_name |-> "n1", phone |-> "p1", email |-> "e1",
       vehicle_make |-> "Tata", vehicle_model |-> "Punch", vehicle_year |-> Year2023],
      [user_name |-> "n6", phone |-> "p6", email |-> "e6",
       vehicle_make |-> "Tata", vehicle_model |-> "Nexon", vehicle_year |-> Year2021] }

UpsertRequests ==
    { [profile |-> p, preferred_date |-> Today, preferred_time |-> "09:00",
       service_type |-> "General Service"] : p \in UpsertProfiles }

\* the bookings tables a behaviour starts from: empty; one day partly booked
UpsertBookings ==
    { <<>>, Week(Today, 1, SLOTS_PER_TIMEFRAME, 0, Vec(1, 4, 2, 3, 0)) }

InitUpsert ==
    /\ users = OneUser
    /\ vehicles = OneVehicle
    /\ centers = SeededCenters
    /\ bookings \in UpsertBookings
    /\ pc = Idle
    /\ local = NoLocals
    /\ resp = [op |-> "none", served |-> 0]
    /\ call = [fn |-> "none"]
    /\ fallbacks = 0
    /\ sent_notifications = <<>>

NextUpsert ==
    \/ \E req \in UpsertRequests : ScheduleAppointment(req)
    \/ \E req \in UpsertRequests : CreateBooking(req)

SpecUpsert == InitUpsert /\ [][NextUpsert]_vars

----------------------------------------------------------------------------
(* SpecDay: get_slot_occupancy, optimize_slots_for_day and                 *)
(* predict_wait_time called directly on a store, between                   *)
(* schedule-appointment requests that write to it.  A call records the     *)
(* number of requests answered before it and the call made before it, so   *)
(* that two calls with no request in between can be told.                  *)

\* direct calls made in one behaviour
MaxCalls == 2

\* loads of the day of the calls: the first and the last slot set apart,
\* the day below and above its capacity of 40
DayVectors ==
    {Vec(1, la, 8, 4, n) : la \in {0, SLOTS_PER_TIMEFRAME + 1}, n \in {2, SLOTS_PER_TIMEFRAME}}

\* the (date, center) a behaviour's store is built for
DayCalls == { << <<2025, 6, 10>>, 1 >>, << <<2024, 2, 27>>, 2 >> }

\* the stores of the calls for date d at center c, each with cancelled rows
\* and another center's rows on that day
DayStores(d, c) == {Week(d, c, SLOTS_PER_TIMEFRAME, 0, v) \o Noise(d, c) : v \in DayVectors}

\* the centers a call names: the one find_best_service_center selects and another
DayCenters == {centers[1].id, centers[2].id}

\* the request written between calls: the known customer, the day of the calls
DayRequests ==
    { [profile |-> p, preferred_date |-> call.date, preferred_time |-> "09:00",
       service_type |-> "General Service"] : p \in {q \in Profiles : q.phone = "p1"} }

InitDay ==
    /\ users = OneUser
    /\ vehicles = OneVehicle
    /\ centers = SeededCenters
    /\ pc = Idle
    /\ local = NoLocals
    /\ resp = [op |-> "none", served |-> 0]
    /\ fallbacks = 0
    /\ sent_notifications = <<>>
    /\ \E dc \in DayCalls :
        /\ bookings \in DayStores(dc[1], dc[2])
        /\ call = [fn |-> "none", date |-> dc[1], center |-> dc[2], calls |-> 0, at |-> 0]

\* what a call keeps of the call before it: the function, the center, the requests answered by then
Before == [fn |-> call.fn, center |-> call.center, at |-> call.at]

CallOccupancy(c) ==
    /\ call.calls < MaxCalls
    /\ call' = [fn |-> "get_slot_occupancy", date |-> call.date, center |-> c,
                calls |-> call.calls + 1, at |-> resp.served, prev |-> Before,
                result |-> get_slot_occupancy(bookings, call.date, c)]
    /\ UNCHANGED <<users, vehicles, bookings, centers, pc, local, resp, fallbacks, sent_notifications>>

\* an optimizer that deletes the cancelled rows it skips
CallOptimize_Purging(c) ==
    /\ call.calls < MaxCalls
    /\ call' = [fn |-> "optimize_slots_for_day", date |-> call.date, center |-> c,
                calls |-> call.calls + 1, at |-> resp.served, prev |-> Before,
                result |-> optimize_slots_for_day(bookings, call.date, c)]
    /\ bookings' = SelectSeq(bookings, LAMBDA r : r.status # "Cancelled")
    /\ UNCHANGED <<users, vehicles, centers, pc, local, resp, fallbacks, sent_notifications>>

CallOptimize(c) ==
    /\ call.calls < MaxCalls
    /\ call' = [fn |-> "optimize_slots_for_day", date |-> call.date, center |-> c,
                calls |-> call.calls + 1, at |-> resp.served, prev |-> Before,
                result |-> optimize_slots_for_day(bookings, call.date, c)]
    /\ UNCHANGED <<users, vehicles, bookings, centers, pc, local, resp, fallbacks, sent_notifications>>

\* the selected_slot of a direct call of predict_wait_time: the first two
\* labels, the last, and a text that is no key of the dict
WaitSlots == {"09:00", "10:00", "17:00", "13:00"}

\* predict_wait_time on the occupancy read for the center of the last call
CallWait(t) ==
    /\ call.calls < MaxCalls
    /\ \E occupancy \in {get_slot_occupancy(bookings, call.date, call.center)} :
        call' = [fn |-> "predict_wait_time", date |-> call.date, center |-> call.center,
                 calls |-> call.calls + 1, at |-> resp.served, prev |-> Before,
                 occupancy |-> occupancy, selected_slot |-> t,
                 result |-> predict_wait_time(occupancy, t)]
    /\ UNCHANGED <<users, vehicles, bookings, centers, pc, local, resp, fallbacks, sent_notifications>>

NextDayCalls ==
    \/ \E c \in DayCenters : CallOccupancy(c)
    \/ \E c \in DayCenters : CallOptimize(c)
    \/ \E t \in WaitSlots : CallWait(t)
    \/ \E req \in DayRequests : ScheduleAppointment(req)

SpecDay == InitDay /\ [][NextDayCalls]_vars

----------------------------------------------------------------------------
(* SpecRace: two schedule-appointment requests in flight at once.  The     *)
(* handler holds no lock and opens no transaction around its queries and   *)
(* its commits, so another request's commit can land between any two of    *)
(* its statements; the handler is cut at the statements that read or       *)
(* commit: the slot search, the occupancy read, the query and the insert   *)
(* of each upsert, the booking insert.                                     *)

RaceRequests == {r \in Requests : r.preferred_date = Today}

\* the bookings tables a race starts from: one day, its 09:00 slot one or two short of full
RaceBookings ==
    { Week(Today, 1, SLOTS_PER_TIMEFRAME, 0, Vec(1, 4, 2, 3, 0)),
      Week(Today, 1, SLOTS_PER_TIMEFRAME, 0, Vec(1, 4, 0, 0, SLOTS_PER_TIMEFRAME)),
      Week(Today, 1, SLOTS_PER_TIMEFRAME, 0, Vec(1, 3, 2, 4, SLOTS_PER_TIMEFRAME)) }

InitRace ==
    /\ users = OneUser
    /\ vehicles = OneVehicle
    /\ centers = SeededCenters
    /\ bookings \in RaceBookings
    /\ pc = Idle
    /\ local = NoLocals
    /\ resp = [op |-> "none", served |-> 0]
    /\ call = [fn |-> "none"]
    /\ fallbacks = 0
    /\ sent_notifications = <<>>

\* the handler's except clause: HTTPException(status_code=400)
RaceFail(p) ==
    /\ pc' = [pc EXCEPT ![p] = "done"]
    /\ resp' = [op |-> "schedule_appointment", served |-> resp.served + 1, status_code |-> 400]

\* main.py 213-221: find_best_service_center and find_preferred_slot
RaceFindSlot(p, req) ==
    /\ pc[p] = "idle"
    /\ \E service_center_id \in {find_best_service_center(centers)} :
       \E slot \in {find_preferred_slot(bookings, req.preferred_date, req.preferred_time, service_center_id)} :
        IF slot.raised
        THEN RaceFail(p) /\ UNCHANGED local
        ELSE /\ pc' = [pc EXCEPT ![p] = "slot"]
             /\ local' = [local EXCEPT ![p] = [req |-> req, service_center_id |-> service_center_id,
                                               slot |-> slot]]
             /\ UNCHANGED resp
    /\ UNCHANGED <<users, vehicles, bookings, centers, call, fallbacks, sent_notifications>>

\* main.py 223-227: get_slot_occupancy and predict_wait_time
RaceWaitTime(p) ==
    /\ pc[p] = "slot"
    /\ pc' = [pc EXCEPT ![p] = "wait"]
    /\ local' = [local EXCEPT ![p] =
            [wait_time |-> predict_wait_time(
                 get_slot_occupancy(bookings, local[p].slot.date, local[p].service_center_id),
                 local[p].slot.time)] @@ local[p]]
    /\ UNCHANGED <<users, vehicles, bookings, centers, resp, call, fallbacks, sent_notifications>>

\* crud.py 45-47: the query of create_or_get_user
RaceUserQuery(p) ==
    /\ pc[p] = "wait"
    /\ \E found \in {UserByPhone(users, local[p].req.profile.phone)} :
        /\ pc' = [pc EXCEPT ![p] = IF found # 0 THEN "user" ELSE "user_add"]
        /\ local' = [local EXCEPT ![p] = [user_id |-> found] @@ local[p]]
    /\ UNCHANGED <<users, vehicles, bookings, centers, resp, call, fallbacks, sent_notifications>>

\* crud.py 49-53: the insert of create_or_get_user and its commit
RaceUserCommit(p) ==
    /\ pc[p] = "user_add"
    /\ \E user \in {AddUser(users, local[p].req.profile.user_name, local[p].req.profile.phone,
                            local[p].req.profile.email)} :
        IF user.raised
        THEN RaceFail(p) /\ UNCHANGED <<users, local>>
        ELSE /\ users' = user.table
             /\ pc' = [pc EXCEPT ![p] = "user"]
             /\ local' = [local EXCEPT ![p] = [@ EXCEPT !.user_id = user.id]]
             /\ UNCHANGED resp
    /\ UNCHANGED <<vehicles, bookings, centers, call, fallbacks, sent_notifications>>

\* crud.py 58-65: the query of create_or_get_vehicle
RaceVehicleQuery(p) ==
    /\ pc[p] = "user"
    /\ \E found \in {VehicleByKey(vehicles, local[p].user_id, local[p].req.profile.vehicle_make,
                                  local[p].req.profile.vehicle_model)} :
        /\ pc' = [pc EXCEPT ![p] = IF found # 0 THEN "vehicle" ELSE "vehicle_add"]
        /\ local' = [local EXCEPT ![p] = [vehicle_id |-> found] @@ local[p]]
    /\ UNCHANGED <<users, vehicles, bookings, centers, resp, call, fallbacks, sent_notifications>>

\* crud.py 67-71: the insert of create_or_get_vehicle and its commit
RaceVehicleCommit(p) ==
    /\ pc[p] = "vehicle_add"
    /\ \E vehicle \in {AddVehicle(vehicles, local[p].user_id, local[p].req.profile.vehicle_make,
                                  local[p].req.profile.vehicle_model, local[p].req.profile.vehicle_year)} :
        IF vehicle.raised
        THEN RaceFail(p) /\ UNCHANGED <<vehicles, local>>
        ELSE /\ vehicles' = vehicle.table
             /\ pc' = [pc EXCEPT ![p] = "vehicle"]
             /\ local' = [local EXCEPT ![p] = [@ EXCEPT !.vehicle_id = vehicle.id]]
             /\ UNCHANGED resp
    /\ UNCHANGED <<users, bookings, centers, call, fallbacks, sent_notifications>>

\* an insert that checks the slot again and refuses a full one
RaceInsert_Rechecked(p) ==
    /\ pc[p] = "vehicle"
    /\ pc' = [pc EXCEPT ![p] = "done"]
    /\ IF check_slot_availability(bookings, local[p].slot.date, local[p].slot.time, local[p].service_center_id)
       THEN /\ bookings' = Append(bookings,
                              NewBooking(local[p].user_id, local[p].vehicle_id, local[p].slot.date,
                                         local[p].slot.time, local[p].req.service_type,
                                         local[p].service_center_id))
            /\ resp' = [op |-> "schedule_appointment", served |-> resp.served + 1, status_code |-> 200,
                        booking_id |-> Len(bookings) + 1]
       ELSE /\ resp' = [op |-> "schedule_appointment", served |-> resp.served + 1, status_code |-> 400]
            /\ UNCHANGED bookings
    /\ UNCHANGED <<users, vehicles, centers, local, call, fallbacks, sent_notifications>>

\* main.py 235-271: the booking insert, its commit and the response
RaceInsert(p) ==
    /\ pc[p] = "vehicle"
    /\ pc' = [pc EXCEPT ![p] = "done"]
    /\ bookings' = Append(bookings,
                      NewBooking(local[p].user_id, local[p].vehicle_id, local[p].slot.date,
                                 local[p].slot.time, local[p].req.service_type,
                                 local[p].service_center_id))
    /\ fallbacks' = IF local[p].slot.tier = 5 THEN fallbacks + 1 ELSE fallbacks
    /\ resp' = [op |-> "schedule_appointment", served |-> resp.served + 1, status_code |-> 200,
                booking_id |-> Len(bookings) + 1,
                preferred_date |-> local[p].req.preferred_date,
                preferred_time |-> local[p].req.preferred_time,
                assigned_date |-> local[p].slot.date, assigned_time |-> local[p].slot.time,
                slot_changed |-> (local[p].slot.date # local[p].req.preferred_date
                                    \/ local[p].slot.time # local[p].req.preferred_time),
                estimated_wait |-> local[p].wait_time, tier |-> local[p].slot.tier]
    /\ UNCHANGED <<users, vehicles, centers, local, call, sent_notifications>>

NextRace ==
    \E p \in Procs :
        \/ \E req \in RaceRequests : RaceFindSlot(p, req)
        \/ RaceWaitTime(p)
        \/ RaceUserQuery(p)
        \/ RaceUserCommit(p)
        \/ RaceVehicleQuery(p)
        \/ RaceVehicleCommit(p)
        \/ RaceInsert(p)

SpecRace == InitRace /\ [][NextRace]_vars

----------------------------------------------------------------------------
(* What the claims speak of, stated on the tables and not through the      *)
(* scheduler's own queries.                                                *)

LiveStatuses == {"Pending", "Confirmed", "Completed"}

\* the non-Cancelled bookings of a (date, time, center) triple
Load(date, time, c) ==
    Cardinality({i \in DOMAIN bookings :
        /\ bookings[i].status \in LiveStatuses
        /\ <<bookings[i].date, bookings[i].time, bookings[i].service_center_id>> = <<date, time, c>>})

DayFull(date, c) == \A s \in SlotLabels : Load(date, s, c) >= 5

\* the first slot of the canonical order with room on that day
FirstFree(date, c) ==
    AVAILABLE_SLOTS[CHOOSE i \in DOMAIN AVAILABLE_SLOTS :
        /\ Load(date, AVAILABLE_SLOTS[i], c) < 5
        /\ \A j \in 1..(i - 1) : Load(date, AVAILABLE_SLOTS[j], c) >= 5]

\* the least loaded slot of that day, the earliest of the canonical order among equals
LeastLoaded(date, c) ==
    AVAILABLE_SLOTS[CHOOSE i \in DOMAIN AVAILABLE_SLOTS :
        \A j \in DOMAIN AVAILABLE_SLOTS :
            \/ Load(date, AVAILABLE_SLOTS[i], c) < Load(date, AVAILABLE_SLOTS[j], c)
            \/ Load(date, AVAILABLE_SLOTS[i], c) = Load(date, AVAILABLE_SLOTS[j], c) /\ i <= j]

Assigned == call.fn = "find_preferred_slot"

AssignedTo(date, time) ==
    /\ ~call.result.raised
    /\ call.result.date = date
    /\ call.result.time = time

\* C2: tier 1, exact match.  A call whose preferred_time is one of the
\* eight labels and whose preferred slot holds fewer than 5 non-Cancelled
\* bookings returns exactly (preferred_date, preferred_time), whatever the
\* other slots hold.
C2_ExactMatch ==
    (Assigned /\ call.time \in SlotLabels /\ Load(call.date, call.time, call.center) < 5)
        => AssignedTo(call.date, call.time)

\* the preferred slot is returned although it is the fullest slot with room and others are full
C2_Witness ==
    /\ Assigned
    /\ call.time \in SlotLabels
    /\ Load(call.date, call.time, call.center) = 4
    /\ \E s \in SlotLabels : Load(call.date, s, call.center) = 0
    /\ \E s \in SlotLabels : Load(call.date, s, call.center) >= 5
    /\ AssignedTo(call.date, call.time)

\* C3: tier 2, same-day relaxation.  When tier 1 does not answer (the
\* preferred slot is at capacity or preferred_time is no label) and some
\* slot of preferred_date has room, the call returns preferred_date with
\* the least loaded slot of the day, the earliest of the canonical order
\* among the slots tied at the minimum.
C3_SameDay ==
    ( /\ Assigned
      /\ ~(call.time \in SlotLabels /\ Load(call.date, call.time, call.center) < 5)
      /\ ~DayFull(call.date, call.center) )
        => AssignedTo(call.date, LeastLoaded(call.date, call.center))

\* the preferred slot is full, two later slots tie at the minimum, the earlier of them is returned
C3_Witness ==
    /\ Assigned
    /\ call.time = "09:00"
    /\ Load(call.date, "09:00", call.center) >= 5
    /\ Load(call.date, "10:00", call.center) = 4
    /\ Load(call.date, "12:00", call.center) = 4
    /\ Load(call.date, "11:00", call.center) >= 5
    /\ AssignedTo(call.date, "10:00")
    /\ call.result.tier = 2

\* C4: tier 3, next day.  When all eight slots of preferred_date are at
\* capacity and some slot of the next day has room, the call returns the
\* next day with its first slot of the canonical order that has room, which
\* need not be its least loaded slot.
C4_NextDay ==
    ( /\ Assigned
      /\ strptime_ok(call.date)
      /\ DayFull(call.date, call.center)
      /\ ~DayFull(AddDays(call.date, 1), call.center) )
        => AssignedTo(AddDays(call.date, 1), FirstFree(AddDays(call.date, 1), call.center))

\* the next day's first slot with room holds 4 while a later slot is empty, and the first is returned
C4_Witness ==
    /\ Assigned
    /\ DayFull(call.date, call.center)
    /\ ~DayFull(AddDays(call.date, 1), call.center)
    /\ FirstFree(AddDays(call.date, 1), call.center) # LeastLoaded(AddDays(call.date, 1), call.center)
    /\ AssignedTo(AddDays(call.date, 1), FirstFree(AddDays(call.date, 1), call.center))
    /\ call.result.tier = 3

\* the offsets 2..6 of the days with room, the two days before them being full
RoomOffsets(date, c) == {i \in 2..6 : ~DayFull(AddDays(date, i), c)}

\* C5: tier 4, the horizon.  When preferred_date and the next day are full
\* and some day at offset 2..6 has room, the call returns the day of the
\* smallest such offset with its first slot of the canonical order that has
\* room; and no call returns a day outside preferred_date ..
\* preferred_date + 6, so a day beyond the horizon is never used.
C5_Horizon ==
    (Assigned /\ strptime_ok(call.date)) =>
        /\ ( /\ DayFull(call.date, call.center)
             /\ DayFull(AddDays(call.date, 1), call.center)
             /\ RoomOffsets(call.date, call.center) # {} )
            => LET i == CHOOSE i \in RoomOffsets(call.date, call.center) :
                            \A j \in RoomOffsets(call.date, call.center) : i <= j
               IN  AssignedTo(AddDays(call.date, i), FirstFree(AddDays(call.date, i), call.center))
        /\ ~call.result.raised => \E k \in 0..6 : call.result.date = AddDays(call.date, k)

\* the room is found on the last day of the horizon, across a month's or a year's end
C5_Witness ==
    /\ Assigned
    /\ \A k \in 0..5 : DayFull(AddDays(call.date, k), call.center)
    /\ AssignedTo(AddDays(call.date, 6), "12:00")
    /\ call.result.date[2] # call.date[2]
    /\ call.result.tier = 4

\* the seven days of the horizon are full
WeekFull(date, c) == \A k \in 0..6 : DayFull(AddDays(date, k), c)

\* C6: tier 5, the exhausted fallback.  When every slot of the center is at
\* capacity on each of the days preferred_date .. preferred_date + 6, the
\* call returns (preferred_date + 1 day, "09:00") although that slot holds
\* 5 or more non-Cancelled bookings, whatever other centers hold.
C6_Exhausted ==
    (Assigned /\ strptime_ok(call.date) /\ WeekFull(call.date, call.center))
        => AssignedTo(AddDays(call.date, 1), "09:00")

\* the week is full, the day after it and another center have room, the full slot is returned
C6_Witness ==
    /\ Assigned
    /\ WeekFull(call.date, call.center)
    /\ ~DayFull(AddDays(call.date, 7), call.center)
    /\ \E c \in 1..3 : c # call.center /\ ~DayFull(call.date, c)
    /\ AssignedTo(AddDays(call.date, 1), "09:00")
    /\ Load(AddDays(call.date, 1), "09:00", call.center) >= 5
    /\ call.result.tier = 5

\* C7: a preferred slot that holds 5 or more non-Cancelled bookings is
\* never the (date, time) returned: the result differs from it in time or
\* in date, in every tier.
C7_NeverFullPreferred ==
    (Assigned /\ Load(call.date, call.time, call.center) >= 5)
        => (call.result.raised \/ call.result.date # call.date \/ call.result.time # call.time)

\* the preferred slot is the full 09:00 of a full week and the fallback returns 09:00 of the next day
C7_Witness ==
    /\ Assigned
    /\ call.time = "09:00"
    /\ Load(call.date, call.time, call.center) >= 5
    /\ call.result.tier = 5
    /\ call.result.time = call.time
    /\ call.result.date # call.date

\* C8: is_available(date, time, center) is true exactly when fewer than 5
\* bookings of that date, time and center have a status other than
\* Cancelled; rows of other slots, days and centers and cancelled rows do
\* not count.
C8_Available ==
    call.fn = "check_slot_availability"
        => (call.result <=> Load(call.date, call.time, call.center) < 5)

\* an empty slot (but for a cancelled row) is available while other slots of the day are over capacity
C8_Witness ==
    /\ call.fn = "check_slot_availability"
    /\ call.result = TRUE
    /\ Load(call.date, call.time, call.center) = 0
    /\ \E i \in DOMAIN bookings :
        /\ bookings[i].date = call.date /\ bookings[i].time = call.time
        /\ bookings[i].service_center_id = call.center /\ bookings[i].status = "Cancelled"
    /\ \E i \in DOMAIN bookings :
        /\ bookings[i].date = call.date /\ bookings[i].time = call.time
        /\ bookings[i].service_center_id # call.center /\ bookings[i].status # "Cancelled"
    /\ \E s \in SlotLabels : Load(call.date, s, call.center) > 5

----------------------------------------------------------------------------
(* Claims on the handlers *)

\* the (date, time, center) triples that hold a booking
Triples == {<<bookings[i].date, bookings[i].time, bookings[i].service_center_id>> : i \in DOMAIN bookings}

\* C1 as claimed: in every state reached by schedule-appointment and cancel
\* requests handled one at a time, each (date, time, center) triple holds
\* at most 5 non-Cancelled bookings.
C1_CapacityAsClaimed == \A t \in Triples : Load(t[1], t[2], t[3]) <= 5

\* C1, amended: under schedule-appointment and cancel requests handled one
\* at a time, a triple holds at most 5 non-Cancelled bookings as long as no
\* request was answered by the tier-5 fallback; each fallback answer can
\* put one booking more into a 09:00 slot, and into no other slot.
C1_CapacityButFallback ==
    \A t \in Triples :
        Load(t[1], t[2], t[3]) <= 5 + (IF t[2] = AVAILABLE_SLOTS[1] THEN fallbacks ELSE 0)

\* a first request filled 09:00 to 5, a second one for 09:00 was moved to the least loaded slot
C1_Witness ==
    /\ resp.op = "schedule_appointment"
    /\ resp.served = 2
    /\ resp.status_code = 200
    /\ fallbacks = 0
    /\ resp.preferred_time = "09:00"
    /\ resp.tier = 2
    /\ Load(resp.preferred_date, "09:00", 1) = 5
    /\ bookings[Len(bookings) - 1].time = "09:00"
    /\ bookings[Len(bookings) - 1].date = resp.preferred_date

\* the step is a cancel request for the live booking i
CancelsLive(i) ==
    /\ resp'.op = "cancel_booking"
    /\ resp'.served = resp.served + 1
    /\ resp'.booking_id = i
    /\ i \in DOMAIN bookings
    /\ bookings[i].status # "Cancelled"

\* C9 as claimed: cancelling a non-Cancelled booking of a slot that is at
\* capacity (is_available false) makes is_available true for that slot.
C9_CancelFreesAsClaimed ==
    [][\A i \in IdInputs :
        ( /\ CancelsLive(i)
          /\ ~check_slot_availability(bookings, bookings[i].date, bookings[i].time,
                                      bookings[i].service_center_id) )
        => check_slot_availability(bookings', bookings[i].date, bookings[i].time,
                                   bookings[i].service_center_id)]_vars

\* C9, amended: cancelling a non-Cancelled booking of a slot that holds
\* exactly 5 non-Cancelled bookings makes is_available true for that slot
\* (a slot holding more than 5 stays unavailable after one cancel).
C9_CancelFreesFullSlot ==
    [][\A i \in IdInputs :
        ( /\ CancelsLive(i)
          /\ Load(bookings[i].date, bookings[i].time, bookings[i].service_center_id) = 5 )
        => check_slot_availability(bookings', bookings[i].date, bookings[i].time,
                                   bookings[i].service_center_id)]_vars

\* the only request so far cancelled booking 1, the only cancelled row of its slot, which now holds 4
C9_Witness ==
    /\ resp.op = "cancel_booking"
    /\ resp.served = 1
    /\ resp.booking_id = 1
    /\ 1 \in DOMAIN bookings
    /\ bookings[1].status = "Cancelled"
    /\ \A i \in DOMAIN bookings :
        (bookings[i].status = "Cancelled" /\ bookings[i].time = bookings[1].time
            /\ bookings[i].date = bookings[1].date) => i = 1
    /\ Load(bookings[1].date, bookings[1].time, bookings[1].service_center_id) = 4
    /\ check_slot_availability(bookings, bookings[1].date, bookings[1].time, bookings[1].service_center_id)

\* C10: the race.  Nothing between the availability check and the insert
\* looks at the slot again: a request that has chosen its slot inserts its
\* booking there whatever the slot holds by then, so two requests that both
\* saw 4 bookings in a slot leave 6 in it.
C10_InsertWithoutRecheck ==
    [][\A p \in Procs :
        (pc[p] = "vehicle" /\ pc'[p] = "done")
        => /\ Len(bookings') = Len(bookings) + 1
           /\ bookings'[Len(bookings')].date = local[p].slot.date
           /\ bookings'[Len(bookings')].time = local[p].slot.time
           /\ bookings'[Len(bookings')].service_center_id = local[p].service_center_id
           /\ bookings'[Len(bookings')].status = "Confirmed"]_vars

\* both requests were answered by tier 1 with the same slot, which now holds 6, with no fallback
C10_Witness ==
    /\ \A p \in Procs : pc[p] = "done"
    /\ fallbacks = 0
    /\ \A p \in Procs : local[p] # <<>> /\ local[p].slot.tier = 1 /\ local[p].slot.time = "09:00"
    /\ local[1].slot.date = local[2].slot.date
    /\ Load(local[1].slot.date, "09:00", 1) = 6
    /\ \A i \in {Len(bookings) - 1, Len(bookings)} :
        bookings[i].time = "09:00" /\ bookings[i].date = local[1].slot.date

----------------------------------------------------------------------------
(* Claims on the schedule-appointment handler (SpecBook) *)

\* the step is a schedule-appointment request answered with an error
BookFailed == resp'.op = "schedule_appointment" /\ resp'.status_code # 200

\* the step is a schedule-appointment request answered with success
BookSucceeded == resp'.op = "schedule_appointment" /\ resp'.status_code = 200

\* C11: all-or-nothing booking.  A schedule-appointment request that fails
\* at any step leaves no row it created: the users, vehicles and bookings
\* tables are what they were before the request.
C11_AllOrNothing ==
    [][BookFailed => (users' = users /\ vehicles' = vehicles /\ bookings' = bookings)]_vars

\* C12: validation.  A schedule-appointment request whose preferred_date
\* spells no calendar date is answered with a client error and persists no
\* booking, whatever the store holds.
C12_MalformedDateRejected ==
    [][\A req \in BookRequests :
          (~strptime_ok(req.preferred_date) /\ ScheduleAppointment(req))
              => (resp'.status_code \in 400..499 /\ bookings' = bookings)]_vars

\* the customer and vehicle steps of the request cannot fail
Benign(req) == req.profile \in Profiles

\* the slot search of the request, run on the tables before the step
SlotOf(req) ==
    find_preferred_slot(bookings, req.preferred_date, req.preferred_time,
                        find_best_service_center(centers))

ChecksOf(req) ==
    ChecksMade(bookings, req.preferred_date, req.preferred_time, find_best_service_center(centers))

\* the step persists one booking and answers with success
Persisted ==
    /\ resp'.status_code = 200
    /\ Len(bookings') = Len(bookings) + 1

\* C14: capacity exhaustion is never an error and the search terminates.
\* For every store and every well-formed preferred_date the slot search
\* makes at most 1 + 8 + 8 + 40 availability checks and returns a
\* (date, time) pair, and schedule-appointment then persists a booking
\* rather than failing, even when all 7 days are full.
C14_NeverAnError ==
    [][\A req \in BookRequests :
          (strptime_ok(req.preferred_date) /\ Benign(req) /\ ScheduleAppointment(req))
              => /\ ~SlotOf(req).raised
                 /\ ChecksOf(req) <= 1 + 8 + 8 + 40
                 /\ Persisted]_vars

\* C14, for the dates it holds for: the same, when the 6 days after
\* preferred_date are days of the calendar (preferred_date is no later
\* than 9999-12-25)
C14_NeverAnErrorBeforeLastWeek ==
    [][\A req \in BookRequests :
          (strptime_ok(req.preferred_date) /\ add_ok(req.preferred_date, 6)
              /\ Benign(req) /\ ScheduleAppointment(req))
              => /\ ~SlotOf(req).raised
                 /\ ChecksOf(req) <= 1 + 8 + 8 + 40
                 /\ Persisted]_vars

\* a request answered by the last return, after all 57 checks, has persisted its booking
C14_Witness ==
    /\ resp.op = "schedule_appointment"
    /\ resp.status_code = 200
    /\ resp.tier = 5
    /\ bookings # <<>>
    /\ bookings[Len(bookings)].date = resp.assigned_date
    /\ ChecksMade(SubSeq(bookings, 1, Len(bookings) - 1), resp.preferred_date, resp.preferred_time,
                  find_best_service_center(centers)) = 1 + 8 + 8 + 40

\* C15: a successful schedule-appointment adds exactly one Booking, with
\* status Confirmed, date and time equal to the pair the slot search
\* returns for the request's preferred date and time on the tables before
\* the request, and service center equal to the selected center; every
\* pre-existing Booking is left unchanged.
C15_AddsOneConfirmed ==
    [][BookSucceeded =>
          \A slot \in {find_preferred_slot(bookings, resp'.preferred_date, resp'.preferred_time,
                                            find_best_service_center(centers))} :
              /\ Len(bookings') = Len(bookings) + 1
              /\ SubSeq(bookings', 1, Len(bookings)) = bookings
              /\ bookings'[Len(bookings')].status = "Confirmed"
              /\ bookings'[Len(bookings')].date = slot.date
              /\ bookings'[Len(bookings')].time = slot.time
              /\ bookings'[Len(bookings')].service_center_id = find_best_service_center(centers)]_vars

\* a request that was moved to another slot has added its Confirmed booking
\* there, behind the rows that were in the table
C15_Witness ==
    /\ resp.op = "schedule_appointment"
    /\ resp.status_code = 200
    /\ resp.slot_changed
    /\ resp.tier \in 2..4
    /\ Len(bookings) > 1
    /\ resp.booking_id = Len(bookings)
    /\ bookings[Len(bookings)].status = "Confirmed"
    /\ bookings[Len(bookings)].date = resp.assigned_date
    /\ bookings[Len(bookings)].time = resp.assigned_time

----------------------------------------------------------------------------
(* Claims on the handlers addressed to a booking id or a center (SpecApi) *)

\* the step's answer is the not-found outcome and the step wrote nothing
NotFoundOutcome ==
    /\ resp'.status_code = 404
    /\ bookings' = bookings
    /\ sent_notifications' = sent_notifications

\* the step is some operation addressed to booking_id
AddressedTo(booking_id) ==
    \/ GetBooking(booking_id)
    \/ CancelBooking(booking_id)
    \/ SendConfirmation(booking_id)
    \/ SendReminder(booking_id)
    \/ SendCompletion(booking_id)
    \/ NotificationHistory(booking_id)

\* the step is some operation that needs a service center
NeedsCenter ==
    \/ \E date \in ApiDates : AvailableSlots(date)
    \/ ScheduleAnalytics
    \/ \E req \in ApiRequests : ScheduleAppointment(req)

\* C13: not-found is reported distinctly.  Every operation addressed to an
\* unknown booking id (get, cancel, send-confirmation, send-reminder,
\* send-completion, notification history) and every operation needing a
\* center when no service center exists (available-slots,
\* schedule-analytics, schedule-appointment) answers not-found, not the
\* generic client error, and leaves bookings and the notification log
\* unchanged.
C13_NotFoundDistinct ==
    [][/\ \A id \in IdInputs : (id \notin DOMAIN bookings /\ AddressedTo(id)) => NotFoundOutcome
       /\ (centers = <<>> /\ NeedsCenter) => NotFoundOutcome]_vars

----------------------------------------------------------------------------
(* Claims on the occupancy reporter and the day optimizer (SpecDay, SpecApi) *)

RECURSIVE SumOver(_, _)
\* the sum of the entries of a mapping over the keys S
SumOver(f, S) ==
    IF S = {} THEN 0
    ELSE LET x == CHOOSE y \in S : TRUE
         IN  f[x] + SumOver(f, S \ {x})

\* the step is a direct call of fn
Called(fn) == call' # call /\ call'.fn = fn

\* the step's call follows a call of fn for the same day and center, with no request in between
Follows(fn) ==
    /\ call.fn = fn
    /\ call.date = call'.date
    /\ call.center = call'.center
    /\ call.at = resp.served

\* C16: for every center and day, in every reachable state, the entries of
\* the occupancy mapping sum to the optimizer's total_booked, and
\* total_available = 40 - total_booked.
C16_BookedIsSum ==
    [][Called("optimize_slots_for_day") =>
          /\ call'.result.total_booked
                = SumOver(get_slot_occupancy(bookings, call'.date, call'.center), SlotLabels)
          /\ Follows("get_slot_occupancy") => call'.result.total_booked = SumOver(call.result, SlotLabels)
          /\ call'.result.total_available = 40 - call'.result.total_booked]_vars

\* the optimizer has answered a second call, after a request was served,
\* for a day that holds bookings in its last slot and in others, and
\* cancelled rows
C16_Witness ==
    /\ call.fn = "optimize_slots_for_day"
    /\ call.calls = 2
    /\ call.at > 0
    /\ call.result.occupancy_by_slot["17:00"] > 0
    /\ call.result.total_booked > call.result.occupancy_by_slot["17:00"]
    /\ \E i \in DOMAIN bookings :
          /\ bookings[i].status = "Cancelled"
          /\ bookings[i].date = call.date
          /\ bookings[i].service_center_id = call.center

\* the non-Cancelled bookings of a day at a center, over the eight slots
DayLoad(date, c) ==
    Cardinality({i \in DOMAIN bookings :
        /\ bookings[i].status \in LiveStatuses
        /\ bookings[i].time \in SlotLabels
        /\ <<bookings[i].date, bookings[i].service_center_id>> = <<date, c>>})

\* the statistics of the days the last response reports
ReportedStats ==
    IF resp.op = "available_slots" /\ resp.status_code = 200 THEN {resp.stats}
    ELSE IF resp.op = "schedule_analytics" /\ resp.status_code = 200
         THEN {resp.next_7_days[i] : i \in DOMAIN resp.next_7_days}
    ELSE {}

C18_PureReads ==
    [][(Called("optimize_slots_for_day") \/ Called("get_slot_occupancy")) =>
          /\ users' = users
          /\ vehicles' = vehicles
          /\ bookings' = bookings
          /\ centers' = centers
          /\ Follows(call'.fn) => call'.result = call.result]_vars

\* the optimizer was called twice in a row for the same center, after a
\* request has written to the store, and reports bookings
C18_Witness ==
    /\ call.fn = "optimize_slots_for_day"
    /\ call.calls = 2
    /\ call.prev.fn = "optimize_slots_for_day"
    /\ call.prev.center = call.center
    /\ call.prev.at = call.at
    /\ call.at > 0
    /\ call.result.total_booked > 0
    /\ call.result = optimize_slots_for_day(bookings, call.date, call.center)

----------------------------------------------------------------------------
(* Claims on the wait estimate (SpecDay) *)

\* the count of the selected slot in the mapping of the last call, 0 if the slot is absent
WaitCount ==
    IF call.selected_slot \in DOMAIN call.occupancy THEN call.occupancy[call.selected_slot] ELSE 0

WaitMinutes == 30 * WaitCount

\* C19: wait-time bands.  With minutes = 30 x (count of the slot in the
\* occupancy mapping, 0 if absent): the no-wait message for 0 minutes,
\* "~N min" up to 30 minutes, "~N min (about 1 hour)" above 30 and up to
\* 60, "~Hh Mm" with H = minutes div 60 and M = minutes mod 60 above 60;
\* so count 0 gives no wait, 1 gives ~30 min, 2 gives ~60 min (about 1
\* hour), 3 gives 1h 30m.
C19_WaitBands ==
    call.fn = "predict_wait_time" =>
        /\ WaitMinutes = 0 => call.result = "No wait - You'll be first!"
        /\ (0 < WaitMinutes /\ WaitMinutes <= 30)
              => call.result = "~" \o ToString(WaitMinutes) \o " min wait"
        /\ (30 < WaitMinutes /\ WaitMinutes <= 60)
              => call.result = "~" \o ToString(WaitMinutes) \o " min wait (about 1 hour)"
        /\ WaitMinutes > 60
              => call.result = "~" \o ToString(WaitMinutes \div 60) \o "h "
                                  \o ToString(WaitMinutes % 60) \o "m wait"
        /\ WaitCount = 1 => call.result = "~30 min wait"
        /\ WaitCount = 2 => call.result = "~60 min wait (about 1 hour)"
        /\ WaitCount = 3 => call.result = "~1h 30m wait"

\* the estimate for a slot holding 3 bookings, asked after a request has written to the store
C19_Witness ==
    /\ call.fn = "predict_wait_time"
    /\ call.selected_slot \in SlotLabels
    /\ WaitCount = 3
    /\ call.at > 0
    /\ call.result = "~1h 30m wait"

----------------------------------------------------------------------------
(* Claims on the determinism of the slot search (SpecFn) *)

\* the non-Cancelled bookings among the rows, slot by slot
SlotCounts(rows) ==
    [i \in DOMAIN AVAILABLE_SLOTS |->
        Cardinality({j \in rows : bookings[j].time = AVAILABLE_SLOTS[i]})]

\* the non-Cancelled counts of center c on day date, slot by slot
LoadVector(date, c) ==
    SlotCounts({j \in DOMAIN bookings :
        /\ bookings[j].status \in LiveStatuses
        /\ <<bookings[j].date, bookings[j].service_center_id>> = <<date, c>>})

RECURSIVE CountsOnly(_, _, _)
\* A store that agrees with the bookings table on the non-Cancelled counts
\* of center c for the days date .. date + k and holds nothing else: no
\* cancelled row, no other center, no other day.
CountsOnly(date, c, k) ==
    IF k < 0 THEN <<>>
    ELSE CountsOnly(date, c, k - 1)
         \o DayRows(AddDays(date, k), c, "Confirmed", LoadVector(AddDays(date, k), c), 1)

\* C20: determinism of the slot search.  Two runs with the same
\* (preferred_date, preferred_time, center) on two stores that agree on
\* the non-Cancelled counts of that center for the days preferred_date ..
\* preferred_date + 6 return the same (date, time): the run on the
\* bookings table returns what the run on the store reduced to those
\* counts returns, so bookings of other centers, of other days and
\* Cancelled bookings have no influence.
C20_SameCountsSameSlot ==
    Assigned =>
        \A other \in {CountsOnly(call.date, call.center, 6)} :
            call.result = find_preferred_slot(other, call.date, call.time, call.center)

\* the search moved to a later day whose returned slot also holds a
\* cancelled row and a row of another center, in a store that holds a day
\* beyond the horizon
C20_Witness ==
    /\ Assigned
    /\ ~call.result.raised
    /\ call.result.tier \in 3..4
    /\ \E i \in DOMAIN bookings :
          /\ bookings[i].status = "Cancelled"
          /\ bookings[i].service_center_id = call.center
          /\ bookings[i].date = call.result.date
          /\ bookings[i].time = call.result.time
    /\ \E i \in DOMAIN bookings :
          /\ bookings[i].service_center_id # call.center
          /\ bookings[i].date = call.result.date
          /\ bookings[i].time = call.result.time
    /\ bookings # CountsOnly(call.date, call.center, 6)

----------------------------------------------------------------------------
(* Claims on the upserts (SpecUpsert) *)

\* the step is the handling of the booking request req by either handler
Sends(req) == ScheduleAppointment(req) \/ CreateBooking(req)

\* the ids of the Users with that phone, before the step
KnownByPhone(phone) == {i \in DOMAIN users : users[i].phone = phone}

\* the step answered with success and its booking belongs to user i
BookedFor(i) ==
    /\ resp'.status_code = 200
    /\ Len(bookings') = Len(bookings) + 1
    /\ bookings'[Len(bookings')].user_id = i

\* the step added exactly one User, with that phone, behind the others
OneNewUser(phone) ==
    /\ Len(users') = Len(users) + 1
    /\ SubSeq(users', 1, Len(users)) = users
    /\ users'[Len(users')].phone = phone

\* no two Users share a phone number, after the step
PhonesDistinct == \A i, j \in DOMAIN users' : users'[i].phone = users'[j].phone => i = j

\* C21 as claimed: user upsert by phone.  After every booking request no
\* two Users share a phone number; a request whose phone matches an
\* existing User reuses that User and leaves the users table as it was; a
\* request with an unseen phone creates exactly one new User.
C21_UserUpsert ==
    [][\A req \in UpsertRequests : Sends(req) =>
          /\ PhonesDistinct
          /\ IF KnownByPhone(req.profile.phone) # {}
             THEN /\ users' = users
                  /\ \E i \in KnownByPhone(req.profile.phone) : BookedFor(i)
             ELSE OneNewUser(req.profile.phone)]_vars

\* C21, for the requests it holds for: the same, but a request with an
\* unseen phone creates its one new User only when its e-mail is unseen
\* too; with the e-mail of an existing User it is answered 400 and writes
\* nothing.
C21_UserUpsertUnlessEmailKnown ==
    [][\A req \in UpsertRequests : Sends(req) =>
          /\ PhonesDistinct
          /\ IF KnownByPhone(req.profile.phone) # {}
             THEN /\ users' = users
                  /\ \E i \in KnownByPhone(req.profile.phone) : BookedFor(i)
             ELSE IF \E i \in DOMAIN users : users[i].email = req.profile.email
             THEN resp'.status_code = 400 /\ UNCHANGED <<users, vehicles, bookings>>
             ELSE OneNewUser(req.profile.phone) /\ BookedFor(Len(users'))]_vars

\* a new customer was created by a first request, the known customer was
\* reused by the second, under the name and e-mail the table had
C21_Witness ==
    /\ resp.served = 2
    /\ resp.status_code = 200
    /\ Len(users) = 2
    /\ users[1] = OneUser[1]
    /\ users[2].phone # users[1].phone
    /\ Len(bookings) >= 2
    /\ bookings[Len(bookings) - 1].user_id = 2
    /\ bookings[Len(bookings)].user_id = 1

\* the ids of the Vehicles of a User of that phone with that make and model, before the step
KnownByKey(phone, make, model) ==
    {i \in DOMAIN vehicles :
        /\ vehicles[i].user_id \in KnownByPhone(phone)
        /\ vehicles[i].make = make
        /\ vehicles[i].model = model}

\* at most one Vehicle per (user, make, model), after the step
VehicleKeysDistinct ==
    \A i, j \in DOMAIN vehicles' :
        ( /\ vehicles'[i].user_id = vehicles'[j].user_id
          /\ vehicles'[i].make = vehicles'[j].make
          /\ vehicles'[i].model = vehicles'[j].model ) => i = j

\* C22: vehicle upsert by (user, make, model).  After every booking
\* request there is at most one Vehicle per (user, make, model); a request
\* by a known user with the make and model of one of that user's Vehicles
\* reuses that Vehicle for its booking and leaves the vehicles table, the
\* stored year included, as it was, whatever year the request carries.
C22_VehicleUpsert ==
    [][\A req \in UpsertRequests : Sends(req) =>
          /\ VehicleKeysDistinct
          /\ \A i \in KnownByKey(req.profile.phone, req.profile.vehicle_make, req.profile.vehicle_model) :
                /\ vehicles' = vehicles
                /\ resp'.status_code = 200
                /\ bookings'[Len(bookings')].vehicle_id = i]_vars

\* after a new customer's request for the same make and model added a
\* second Vehicle, a POST /bookings of the known customer reused Vehicle 1,
\* whose year is the one it was created with
C22_Witness ==
    /\ resp.op = "create_booking"
    /\ resp.served = 2
    /\ resp.status_code = 200
    /\ Len(vehicles) = 2
    /\ vehicles[1] = OneVehicle[1]
    /\ vehicles[2].user_id = 2
    /\ vehicles[2].make = vehicles[1].make
    /\ vehicles[2].model = vehicles[1].model
    /\ bookings[Len(bookings)].vehicle_id = 1
    /\ bookings[Len(bookings)].user_id = 1

----------------------------------------------------------------------------
(* Claims on the life of a booking (SpecApi) *)

\* models.Booking.status: the values of its comment
BookingStatuses == {"Pending", "Confirmed", "Completed", "Cancelled"}

\* C23: booking lifecycle.  No step of any handler removes a Booking; a
\* Booking's date, time, center, user and vehicle (and service type) are
\* after the step what they were before it, so a step changes an existing
\* Booking in its status at most; and every status is one of Pending,
\* Confirmed, Completed, Cancelled.
C23_Lifecycle ==
    [][/\ Len(bookings') >= Len(bookings)
       /\ \A i \in DOMAIN bookings :
            [bookings'[i] EXCEPT !.status = bookings[i].status] = bookings[i]
       /\ \A i \in DOMAIN bookings' : bookings'[i].status \in BookingStatuses]_vars

\* on tables that were empty, a POST /bookings created booking 1 and
\* send-completion then changed its status, and nothing else of it
C23_Witness ==
    /\ resp.op = "send_completion"
    /\ resp.served = 2
    /\ resp.status_code = 200
    /\ centers = <<>>
    /\ Len(bookings) = 1
    /\ bookings[1] = [NewBooking(1, 1, Today, "09:00", "General Service", 1) EXCEPT !.status = "Completed"]

----------------------------------------------------------------------------
(* Claims on the day optimizer's peak and off-peak slots (SpecDay) *)

\* the non-Cancelled bookings of each slot of a day at a center, by slot index
LoadsOf(date, c) ==
    LET rows == {i \in DOMAIN bookings :
                    /\ bookings[i].date = date
                    /\ bookings[i].service_center_id = c
                    /\ bookings[i].status \in LiveStatuses}
    IN  [k \in DOMAIN AVAILABLE_SLOTS |->
            Cardinality({i \in rows : bookings[i].time = AVAILABLE_SLOTS[k]})]

\* the earliest slot, in canonical order, that holds n
EarliestWith(loads, n) ==
    AVAILABLE_SLOTS[CHOOSE k \in DOMAIN loads : loads[k] = n /\ \A j \in 1..(k - 1) : loads[j] # n]

Largest(loads) == CHOOSE n \in {loads[k] : k \in DOMAIN loads} : \A j \in DOMAIN loads : loads[j] <= n

Smallest(loads) == CHOOSE n \in {loads[k] : k \in DOMAIN loads} : \A j \in DOMAIN loads : loads[j] >= n

\* C24: day optimizer tie-breaking.  peak_slot is the earliest slot in
\* canonical order among those with the maximum count of non-Cancelled
\* bookings, off_peak_slot the earliest among those with the minimum
\* count; on a day with no bookings both are "09:00".
C24_TieBreaking ==
    [][Called("optimize_slots_for_day") =>
          \A loads \in {LoadsOf(call'.date, call'.center)} :
              /\ call'.result.peak_slot = EarliestWith(loads, Largest(loads))
              /\ call'.result.off_peak_slot = EarliestWith(loads, Smallest(loads))
              /\ (\A k \in DOMAIN loads : loads[k] = 0)
                    => (call'.result.peak_slot = "09:00" /\ call'.result.off_peak_slot = "09:00")]_vars

\* the optimizer answered for a day whose largest count is shared by the
\* slots from 10:00 on, 09:00 holding less: the peak is 10:00
C24_Witness ==
    /\ call.fn = "optimize_slots_for_day"
    /\ call.result.peak_slot = "10:00"
    /\ call.result.off_peak_slot = "09:00"
    /\ call.result.occupancy_by_slot["10:00"] = call.result.occupancy_by_slot["16:00"]
    /\ call.result.occupancy_by_slot["09:00"] < call.result.occupancy_by_slot["10:00"]

----------------------------------------------------------------------------
(* Claims on the slot a schedule-appointment request is given (Spec, SpecFn) *)

\* the non-Cancelled bookings of a (date, time, center) triple in the table b
LoadIn(b, date, time, c) ==
    Cardinality({i \in DOMAIN b :
        /\ b[i].status \in LiveStatuses
        /\ <<b[i].date, b[i].time, b[i].service_center_id>> = <<date, time, c>>})

\* C25: overflow only through the escape valve.  With requests handled
\* one at a time, a schedule-appointment request answered through tiers 1
\* to 4 is given a slot that holds fewer than 5 non-Cancelled bookings
\* when it is given, and at most 5 with the new one; a request whose
\* insert leaves more than 5 in its slot was answered by the tier-5
\* fallback.
C25_OverflowOnlyByFallback ==
    [][BookSucceeded =>
          \A c \in {find_best_service_center(centers)} :
          \A before \in {LoadIn(bookings, resp'.assigned_date, resp'.assigned_time, c)} :
          \A after \in {LoadIn(bookings', resp'.assigned_date, resp'.assigned_time, c)} :
              /\ after = before + 1
              /\ resp'.tier \in 1..4 => (before < 5 /\ after <= 5)
              /\ after > 5 => resp'.tier = 5]_vars

\* a request was moved by the search over the following days to a slot
\* that held 4, which is now full; the next one can only be answered by
\* the fallback
C25_Witness ==
    /\ resp.op = "schedule_appointment"
    /\ resp.status_code = 200
    /\ resp.tier = 4
    /\ fallbacks = 0
    /\ Load(resp.assigned_date, resp.assigned_time, 1) = 5
    /\ WeekFull(resp.preferred_date, 1)

\* date a is not later than date b
NotLater(a, b) ==
    \/ a[1] < b[1]
    \/ a[1] = b[1] /\ a[2] < b[2]
    \/ a[1] = b[1] /\ a[2] = b[2] /\ a[3] <= b[3]

\* C26: result range of assign.  For every store and every preferred_time,
\* one that is none of the 8 labels included, a call that returns gives
\* one of the 8 canonical slot labels and a date that is preferred_date
\* + k days with 0 <= k <= 6, never a date earlier than preferred_date.
C26_ResultRange ==
    (Assigned /\ ~call.result.raised) =>
        /\ call.result.time \in SlotLabels
        /\ \/ call.result.date = call.date
           \/ /\ strptime_ok(call.date)
              /\ \E k \in 1..6 : call.result.date = AddDays(call.date, k)
        /\ NotLater(call.date, call.result.date)

\* a call for a time that is no label, on 29 December, six full days
\* before the first day with room: the result lies 6 days later, in the
\* next year
C26_Witness ==
    /\ Assigned
    /\ call.time = "13:00"
    /\ ~call.result.raised
    /\ call.result.date = AddDays(call.date, 6)
    /\ call.result.date[1] = call.date[1] + 1
    /\ call.result.time \in SlotLabels

----------------------------------------------------------------------------
(* Claims on POST /bookings and on send-completion (SpecApi) *)

\* C27: POST /bookings bypasses the scheduler.  A request is answered
\* with success and persists one Confirmed booking at exactly the
\* requested preferred_date and preferred_time with service center 1,
\* whatever the slot holds: the slot's count of non-Cancelled bookings
\* rises by 1, from 5 to 6 when the slot was full.  Neither the date nor
\* the time is validated.
C27_PostBypasses ==
    [][\A req \in PostRequests : CreateBooking(req) =>
          /\ resp'.status_code = 200
          /\ bookings' = Append(bookings, bookings'[Len(bookings')])
          /\ bookings'[Len(bookings')].status = "Confirmed"
          /\ bookings'[Len(bookings')].date = req.preferred_date
          /\ bookings'[Len(bookings')].time = req.preferred_time
          /\ bookings'[Len(bookings')].service_center_id = 1
          /\ LoadIn(bookings', req.preferred_date, req.preferred_time, 1)
                = LoadIn(bookings, req.preferred_date, req.preferred_time, 1) + 1]_vars

\* the first request of a behaviour was a POST /bookings for a slot that
\* held 5, with no fallback answer: the slot now holds 6
C27_Witness ==
    /\ resp.op = "create_booking"
    /\ resp.served = 1
    /\ resp.status_code = 200
    /\ fallbacks = 0
    /\ resp.booking_id = Len(bookings)
    /\ bookings[Len(bookings)].date = resp.date
    /\ bookings[Len(bookings)].time = resp.time
    /\ Load(resp.date, resp.time, 1) = 6

\* the (date, time, center) slot of booking i counts one more non-Cancelled booking after the step
CountsAgain(i) ==
    /\ LoadIn(bookings', bookings[i].date, bookings[i].time, bookings[i].service_center_id)
          = LoadIn(bookings, bookings[i].date, bookings[i].time, bookings[i].service_center_id) + 1
    /\ CountSlot(bookings', bookings[i].date, bookings[i].time, bookings[i].service_center_id)
          = CountSlot(bookings, bookings[i].date, bookings[i].time, bookings[i].service_center_id) + 1

\* C28: completion does not check the prior status.  send-completion for
\* an existing booking sets its status to Completed whatever it was and
\* changes nothing else of the table; when the booking was Cancelled its
\* slot counts one booking more, for the scheduler too, so a slot that
\* held 5 after the cancellation holds 6 and Cancelled is not terminal.
C28_CompletionIgnoresStatus ==
    [][\A id \in IdInputs : (id \in DOMAIN bookings /\ SendCompletion(id)) =>
          /\ resp'.status_code = 200
          /\ bookings' = [bookings EXCEPT ![id].status = "Completed"]
          /\ bookings[id].status = "Cancelled" => CountsAgain(id)
          /\ bookings[id].status # "Cancelled" => ~CountsAgain(id)]_vars

\* booking 1 was Cancelled; a booking request refilled its slot to 5,
\* then send-completion turned booking 1 into Completed: the slot holds 6
\* and is refused by the availability check
C28_Witness ==
    /\ resp.op = "send_completion"
    /\ resp.served = 2
    /\ resp.status_code = 200
    /\ resp.booking_id = 1
    /\ fallbacks = 0
    /\ bookings[1].status = "Completed"
    /\ \A i \in DOMAIN bookings : bookings[i].status # "Cancelled"
    /\ bookings[Len(bookings)].status = "Confirmed"
    /\ bookings[Len(bookings)].date = bookings[1].date
    /\ bookings[Len(bookings)].time = bookings[1].time
    /\ Load(bookings[1].date, bookings[1].time, 1) = 6
    /\ ~check_slot_availability(bookings, bookings[1].date, bookings[1].time, 1)
    /\ Len(sent_notifications) = 1

----------------------------------------------------------------------------
(* Claims on the estimated wait and on cancel (Spec) *)

\* the estimate for a slot that holds n bookings: predict_wait_time on a dict whose every entry is n
Estimate(n, slot) == predict_wait_time([s \in SlotLabels |-> n], slot)

\* C29: the estimated wait returned by schedule-appointment is computed
\* from the occupancy read before the new booking is inserted.  It is the
\* estimate for n, the number of non-Cancelled bookings the assigned slot
\* held before the request; a booking placed in an empty slot gets the
\* no-wait message, and for an answer of tiers 1 to 4 n is at most 4 and
\* the wait at most 2h 0m.
C29_WaitBeforeInsert ==
    [][BookSucceeded =>
          \A n \in {LoadIn(bookings, resp'.assigned_date, resp'.assigned_time,
                            find_best_service_center(centers))} :
              /\ resp'.estimated_wait = Estimate(n, resp'.assigned_time)
              /\ n = 0 => resp'.estimated_wait = "No wait - You'll be first!"
              /\ resp'.tier \in 1..4 =>
                    /\ n <= 4
                    /\ resp'.estimated_wait \in
                          {"No wait - You'll be first!", "~30 min wait",
                           "~60 min wait (about 1 hour)", "~1h 30m wait", "~2h 0m wait"}]_vars

\* a request was given a slot that held cancelled bookings only: it is
\* told there is no wait, and its own booking is the slot's first
C29_Witness ==
    /\ resp.op = "schedule_appointment"
    /\ resp.status_code = 200
    /\ resp.estimated_wait = "No wait - You'll be first!"
    /\ Load(resp.assigned_date, resp.assigned_time, 1) = 1
    /\ bookings[Len(bookings)].time = resp.assigned_time
    /\ bookings[Len(bookings)].date = resp.assigned_date
    /\ \E i \in DOMAIN bookings :
          /\ bookings[i].status = "Cancelled"
          /\ bookings[i].date = resp.assigned_date
          /\ bookings[i].time = resp.assigned_time

\* the (date, time, center) slot of booking i
SlotOfBooking(i) == <<bookings[i].date, bookings[i].time, bookings[i].service_center_id>>

\* the step changes the non-Cancelled count of the slot t by d
LoadChanges(t, d) == LoadIn(bookings', t[1], t[2], t[3]) = LoadIn(bookings, t[1], t[2], t[3]) - d

\* C30: frame and idempotence of cancel.  Cancelling an existing booking
\* changes that booking's status and nothing else; the non-Cancelled
\* count of the booking's own slot falls by exactly 1 if the booking was
\* not Cancelled and by 0 if it was, and no other slot's count changes;
\* cancelling a Cancelled booking, as a second cancel does, leaves the
\* tables as they are; cancelling an unknown id changes nothing and is
\* answered not-found.
C30_CancelFrame ==
    [][\A id \in IdInputs : CancelBooking(id) =>
          /\ UNCHANGED <<users, vehicles, centers, sent_notifications>>
          /\ IF id \in DOMAIN bookings
             THEN /\ resp'.status_code = 200
                  /\ bookings' = [bookings EXCEPT ![id].status = "Cancelled"]
                  /\ LoadChanges(SlotOfBooking(id), IF bookings[id].status = "Cancelled" THEN 0 ELSE 1)
                  /\ \A t \in Triples \ {SlotOfBooking(id)} : LoadChanges(t, 0)
                  /\ bookings[id].status = "Cancelled" => bookings' = bookings
                  /\ cancel_booking(bookings', id) = bookings'
             ELSE /\ resp'.status_code = 404
                  /\ bookings' = bookings]_vars

\* two cancel requests were answered and nothing else, the last one for
\* booking 1: its slot, which held 4, holds 3, the other slots what they held
C30_Witness ==
    /\ resp.op = "cancel_booking"
    /\ resp.served = 2
    /\ resp.booking_id = 1
    /\ resp.status_code = 200
    /\ bookings = [Week(Today, 1, SLOTS_PER_TIMEFRAME, 0, Vec(1, 4, 2, 3, 0))
                       \o DayRows(Today, 1, "Cancelled", Flat(1), 1) EXCEPT ![1].status = "Cancelled"]
    /\ Load(Today, "09:00", 1) = 3
    /\ Load(Today, "10:00", 1) = 3
====
